---------------------------- MODULE Spec2Model ----------------------------
(***************************************************************************)
(* Neuroanatomical index engine: the report parser (parseDKTStats), the    *)
(* reference tables, the z-score primitives, the percentile converter and  *)
(* the index calculators.                                                  *)
(*                                                                         *)
(* Numbers.  A JavaScript number is modelled as a pair <<n, d>>:           *)
(*   d > 0, gcd(|n|, d) = 1   the finite value n/d (exact rational)        *)
(*   <<0, 0>>                  NaN                                          *)
(*   <<1, 0>>, <<-1, 0>>       +Infinity, -Infinity                         *)
(* Arithmetic follows IEEE-754 on the special values; on finite values it  *)
(* is exact (binary rounding of doubles and signed zero are not modelled). *)
(* Math.exp, which has no rational value, is evaluated in binary fixed     *)
(* point (FixOne = 2^26) inside zToPercentile.                             *)
(***************************************************************************)
EXTENDS Integers, Sequences, FiniteSets, TLC

VARIABLES
    dktData,   \* the DKTData handed to the calculators
    calc,      \* calculator last called ("none" before the first call)
    withT,     \* whether that call was given a localization function t
    result,    \* the IndexResult it returned
    calls,     \* how many calculator calls the dataset has been through
    fn,        \* primitive last applied: "none", "zScore", "compositeZScore", "zToPercentile"
    arg,       \* its arguments
    ret,       \* the value it returned
    prevArg,   \* the zToPercentile call before it, when both were zToPercentile
    prevRet,
    content,   \* the report handed to parseDKTStats, as its lines
    lineNo,    \* the line the parser's loop is at
    inTable,   \* parseDKTStats' inTable
    hasExtendedCols,   \* parseDKTStats' hasExtendedCols
    parsed     \* parseDKTStats' data: region name -> measurement

calcVars == <<dktData, calc, withT, result, calls>>
primVars == <<fn, arg, ret, prevArg, prevRet>>
parseVars == <<content, lineNo, inTable, hasExtendedCols, parsed>>
vars == <<dktData, calc, withT, result, calls, fn, arg, ret, prevArg, prevRet,
          content, lineNo, inTable, hasExtendedCols, parsed>>

---------------------------------------------------------------------------
(* JavaScript numbers *)

NaN == <<0, 0>>
PInf == <<1, 0>>
NInf == <<-1, 0>>

IAbs(i) == IF i < 0 THEN -i ELSE i
ISgn(i) == IF i < 0 THEN -1 ELSE IF i > 0 THEN 1 ELSE 0

RECURSIVE GCD(_, _)
GCD(a, b) == IF b = 0 THEN a ELSE GCD(b, a % b)

\* The number n/d in lowest terms (d = 0 gives NaN or an infinity).
Norm(n, d) ==
    IF d = 0 THEN <<ISgn(n), 0>>
    ELSE LET s == IF d < 0 THEN -1 ELSE 1
             g == GCD(IAbs(n), IAbs(d))
         IN  <<(s * n) \div g, (s * d) \div g>>

Num(i) == <<i, 1>>
IsNaN(x) == x = NaN
IsInf(x) == x[2] = 0 /\ x[1] # 0
IsFinite(x) == x[2] > 0

XNeg(x) == <<-x[1], x[2]>>

XAdd(x, y) ==
    IF IsNaN(x) \/ IsNaN(y) THEN NaN
    ELSE IF IsInf(x) /\ IsInf(y) THEN (IF x = y THEN x ELSE NaN)
    ELSE IF IsInf(x) THEN x
    ELSE IF IsInf(y) THEN y
    ELSE LET g == GCD(x[2], y[2])
         IN  Norm(x[1] * (y[2] \div g) + y[1] * (x[2] \div g), (x[2] \div g) * y[2])

XSub(x, y) == XAdd(x, XNeg(y))

XMul(x, y) ==
    IF IsNaN(x) \/ IsNaN(y) THEN NaN
    ELSE IF IsInf(x) \/ IsInf(y) THEN <<ISgn(x[1]) * ISgn(y[1]), 0>>
    ELSE LET g1 == GCD(IAbs(x[1]), y[2])
             g2 == GCD(IAbs(y[1]), x[2])
         IN  Norm((x[1] \div g1) * (y[1] \div g2), (x[2] \div g2) * (y[2] \div g1))

\* 1/x: 1/0 is +Infinity, 1/Infinity is 0.
XInv(x) ==
    IF IsNaN(x) THEN NaN
    ELSE IF IsInf(x) THEN <<0, 1>>
    ELSE IF x[1] = 0 THEN PInf
    ELSE IF x[1] < 0 THEN <<-x[2], -x[1]>>
    ELSE <<x[2], x[1]>>

\* x / y: finite/0 is an infinity of the sign of x, 0/0 is NaN.
XDiv(x, y) == XMul(x, XInv(y))

\* x < y; every comparison with NaN is false.
XLt(x, y) ==
    IF IsNaN(x) \/ IsNaN(y) THEN FALSE
    ELSE IF IsInf(x) \/ IsInf(y) THEN
        IF x = y THEN FALSE
        ELSE IF x = NInf \/ y = PInf THEN TRUE
        ELSE FALSE
    ELSE x[1] * y[2] < y[1] * x[2]

XGe(x, y) == ~IsNaN(x) /\ ~IsNaN(y) /\ ~XLt(x, y)
XLe(x, y) == XGe(y, x)

\* The second operand whatever the first is: a maximum that bounds nothing.
C26_NoFloor(x, y) == y

\* Math.abs, Math.max, Math.min, Math.round (half up: floor(x + 1/2)).
MathAbs(x) == <<IAbs(x[1]), x[2]>>
MathMax(x, y) == IF IsNaN(x) \/ IsNaN(y) THEN NaN ELSE IF XLt(x, y) THEN y ELSE x
MathMin(x, y) == IF IsNaN(x) \/ IsNaN(y) THEN NaN ELSE IF XLt(y, x) THEN y ELSE x
\* No rounding; C8 fails under it.
C8_Unrounded(x) == x

MathRound(x) ==
    IF ~IsFinite(x) THEN x ELSE Num((2 * x[1] + x[2]) \div (2 * x[2]))

\* Number(x.toFixed(k)) for k decimals, tenPow = 10^k: the nearest multiple of
\* 10^-k, a tie going away from zero; NaN and the infinities print and parse back.
ToFixed(x, tenPow) ==
    IF ~IsFinite(x) THEN x
    ELSE LET m == MathRound(XMul(MathAbs(x), Num(tenPow)))
         IN  Norm(ISgn(x[1]) * m[1], tenPow)

\* Math.round(x * s) / s.
RoundTo(x, s) == XDiv(MathRound(XMul(x, Num(s))), Num(s))

\* The decimal literal n / d of the source (Dec(265, 100) is 2.65).
Dec(n, d) == Norm(n, d)

---------------------------------------------------------------------------
(* Binary fixed point, for the one transcendental step of zToPercentile.   *)
(* A fixed-point value v stands for v / FixOne.                            *)

FixOne == 67108864      \* 2^26
FixHalf == 8192         \* 2^13

\* a * b / FixOne for a, b >= 0, by halves so that no product overflows.
FixMulN(a, b) ==
    LET a1 == a \div FixHalf
        a0 == a % FixHalf
        b1 == b \div FixHalf
        b0 == b % FixHalf
    IN  a1 * b1 + ((a1 * b0 + a0 * b1 + ((a0 * b0) \div FixHalf)) \div FixHalf)

FixMul(a, b) == ISgn(a) * ISgn(b) * FixMulN(IAbs(a), IAbs(b))

\* The first k binary digits of r / b (0 <= r < b), after acc.
RECURSIVE FixFrac(_, _, _, _)
FixFrac(r, b, k, acc) ==
    IF k = 0 THEN acc
    ELSE IF 2 * r >= b THEN FixFrac(2 * r - b, b, k - 1, 2 * acc + 1)
    ELSE FixFrac(2 * r, b, k - 1, 2 * acc)

\* a * FixOne / b for a >= 0, b > 0 (long division, 26 binary digits).
FixDivN(a, b) == (a \div b) * FixOne + FixFrac(a % b, b, 26, 0)

\* e^-1 in fixed point.
ExpNeg1 == 24687971

\* The Taylor series of e^-f for 0 <= f < 1: sum of (-f)^k / k!, k = i..12,
\* term being f^(i-1) / (i-1)!.
RECURSIVE ExpTaylor(_, _, _)
ExpTaylor(f, i, term) ==
    IF i > 12 THEN 0
    ELSE LET t == FixMulN(term, f) \div i
         IN  (IF i % 2 = 1 THEN -t ELSE t) + ExpTaylor(f, i + 1, t)

RECURSIVE ExpPow(_, _)
ExpPow(n, acc) == IF n = 0 THEN acc ELSE ExpPow(n - 1, FixMulN(acc, ExpNeg1))

\* Math.exp(-x) for a fixed-point x >= 0: e^-floor(x) * e^-frac(x).
MathExpNeg(x) ==
    ExpPow(x \div FixOne, FixOne + ExpTaylor(x % FixOne, 1, FixOne))

---------------------------------------------------------------------------
(* Z-score primitives and the percentile converter *)

\* A z-score counted from one standard deviation below the mean; C14 fails under it.
C14_Uncentred(value, mean, std) == XAdd(XDiv(XSub(value, mean), std), Num(1))

\* zScore(value, mean, std) = (value - mean) / std
zScore(value, mean, std) == XDiv(XSub(value, mean), std)

\* compositeZScore taking its weights as fractions, not percentages; C9 fails under it.
C9_WeightsAsGiven(data, ref, weights) ==
    XAdd(XAdd(XMul(zScore(data.thickness, ref.thickness.mean, ref.thickness.std), weights[1]),
              XMul(zScore(data.surfArea, ref.surfArea.mean, ref.surfArea.std), weights[2])),
         XMul(zScore(data.volume, ref.volume.mean, ref.volume.std), weights[3]))

\* compositeZScore(data, ref, weights): weights are percentages
\* <<thickness, surfArea, volume>>, each divided by 100 before use.
compositeZScore(data, ref, weights) ==
    LET zThick == zScore(data.thickness, ref.thickness.mean, ref.thickness.std)
        zSurf == zScore(data.surfArea, ref.surfArea.mean, ref.surfArea.std)
        zVol == zScore(data.volume, ref.volume.mean, ref.volume.std)
        wT == XDiv(weights[1], Num(100))
        wS == XDiv(weights[2], Num(100))
        wV == XDiv(weights[3], Num(100))
    IN  XAdd(XAdd(XMul(zThick, wT), XMul(zSurf, wS)), XMul(zVol, wV))

\* The constants a1..a5 and p of zToPercentile, in fixed point.
ZA1 == 17101324     \*  0.254829592
ZA2 == -19092253    \* -0.284496736
ZA3 == 95389461     \*  1.421413741
ZA4 == -97519382    \* -1.453152027
ZA5 == 71229713     \*  1.061405429
ZP == 21984267      \*  0.3275911

\* From |z| = 6.2 on, e^(-z*z/2) is below half a fixed-point unit.
ZExpCut == Dec(62, 10)

\* y = 1 - (((((a5 t + a4) t) + a3) t + a2) t + a1) t exp(-|z|^2 / 2), t = 1 / (1 + p |z|),
\* in fixed point, for a finite |z|.
ZErf(absZ) ==
    IF XGe(absZ, ZExpCut) THEN FixOne
    ELSE LET zf == FixDivN(absZ[1], absZ[2])
             t == FixDivN(FixOne, FixOne + FixMulN(ZP, zf))
             x == FixMulN(zf, zf \div 2) + (zf % 2) * (zf \div (2 * FixOne))
             e == MathExpNeg(x)
             h1 == FixMul(ZA5, t) + ZA4
             h2 == FixMul(h1, t) + ZA3
             h3 == FixMul(h2, t) + ZA2
             h4 == FixMul(h3, t) + ZA1
         IN  FixOne - FixMul(FixMul(h4, t), e)

\* A sign that ignores z; C6 fails under it.
C6_AlwaysPositive(z) == 1

\* const sign = z < 0 ? -1 : 1
Sign(z) == IF XLt(z, Num(0)) THEN -1 ELSE 1

\* The final rounding without its factor 0.5; C7 fails under it.
C7_WithoutHalf(sign, y) == (100 * ((FixOne + sign * y) \div FixHalf)) \div FixHalf

\* Math.round((0.5 * (1.0 + sign * y)) * 100) for a fixed-point y in 0..FixOne:
\* floor((100 w + FixOne) / (2 FixOne)) with w = FixOne + sign * y, by halves.
ZRound(sign, y) ==
    LET w == FixOne + sign * y
        wh == w \div FixHalf
        wl == w % FixHalf
    IN  (100 * wh + ((100 * wl + FixOne) \div FixHalf)) \div (2 * FixHalf)

zToPercentile(z) ==
    IF IsNaN(z) THEN NaN
    ELSE LET sign == Sign(z)
             absZ == MathAbs(z)
             y == IF IsInf(z) THEN FixOne ELSE ZErf(absZ)
         IN  Num(ZRound(sign, y))

---------------------------------------------------------------------------
(* Reference population model *)

\* One entry, from a row <<thickness mean, thickness std, surfArea mean, surfArea std,
\* volume mean, volume std>>: thickness in hundredths of a mm, the rest as integers.
Ref(row) ==
    [thickness |-> [mean |-> Dec(row[1], 100), std |-> Dec(row[2], 100)],
     surfArea |-> [mean |-> Num(row[3]), std |-> Num(row[4])],
     volume |-> [mean |-> Num(row[5]), std |-> Num(row[6])]]

REFERENCE_DATA_MALE ==
    LET Entries(rows) == [r \in DOMAIN rows |-> Ref(rows[r])]
    IN  Entries(
        "precentral" :> <<265, 18, 5400, 650, 16500, 2200>> @@
        "postcentral" :> <<215, 16, 5200, 600, 13500, 1800>> @@
        "paracentral" :> <<245, 17, 1700, 280, 4800, 700>> @@
        "pericalcarine" :> <<155, 14, 1900, 320, 2400, 400>> @@
        "cuneus" :> <<195, 15, 2300, 380, 4600, 650>> @@
        "lingual" :> <<205, 15, 3800, 500, 8200, 1100>> @@
        "entorhinal" :> <<320, 35, 480, 100, 1600, 350>> @@
        "parahippocampal" :> <<275, 22, 700, 120, 2200, 380>> @@
        "medialorbitofrontal" :> <<245, 20, 1800, 300, 5000, 750>> @@
        "superiortemporal" :> <<285, 20, 5800, 700, 19000, 2500>> @@
        "parsopercularis" :> <<255, 16, 1600, 250, 4500, 650>> @@
        "parstriangularis" :> <<240, 17, 1550, 280, 4000, 600>> @@
        "middletemporal" :> <<285, 19, 5000, 650, 16000, 2200>> @@
        "fusiform" :> <<270, 18, 3300, 450, 9500, 1300>> @@
        "supramarginal" :> <<260, 17, 3800, 500, 11500, 1600>> @@
        "inferiorparietal" :> <<250, 16, 5500, 700, 15500, 2100>> @@
        "rostralanteriorcingulate" :> <<285, 22, 1100, 200, 3500, 550>> @@
        "insula" :> <<305, 22, 2500, 350, 7800, 1000>> @@
        "posteriorcingulate" :> <<245, 20, 1500, 250, 4000, 600>> @@
        "superiorfrontal" :> <<275, 18, 9500, 1200, 30000, 4000>> @@
        "rostralmiddlefrontal" :> <<240, 17, 4700, 600, 13000, 1800>> @@
        "caudalmiddlefrontal" :> <<265, 17, 2600, 400, 7500, 1000>> @@
        "superiorparietal" :> <<225, 15, 5200, 650, 13000, 1700>> @@
        "precuneus" :> <<240, 16, 4600, 580, 12000, 1600>> @@
        "lateraloccipital" :> <<220, 16, 6300, 800, 15000, 2000>> @@
        "lateralorbitofrontal" :> <<255, 20, 3500, 480, 9800, 1400>> @@
        "inferiortemporal" :> <<280, 20, 3900, 520, 12500, 1700>> @@
        "BA3b_exvivo" :> <<215, 18, 2000, 350, 4500, 700>> @@
        "BA4a_exvivo" :> <<285, 20, 1300, 250, 4300, 650>> @@
        "BA4p_exvivo" :> <<280, 19, 1000, 200, 2700, 450>> @@
        "BA44_exvivo" :> <<280, 18, 1650, 300, 5200, 750>> @@
        "BA45_exvivo" :> <<250, 18, 2250, 400, 6200, 900>>)

\* One curvature entry, from a row <<meanCurv mean, meanCurv std, foldInd mean,
\* foldInd std>>: meanCurv in thousandths, foldInd as integers.
CurvRef(row) ==
    [meanCurv |-> [mean |-> Dec(row[1], 1000), std |-> Dec(row[2], 1000)],
     foldInd |-> [mean |-> Num(row[3]), std |-> Num(row[4])]]

BA_CURVATURE_REFERENCE ==
    LET Entries(rows) == [r \in DOMAIN rows |-> CurvRef(rows[r])]
    IN  Entries(
        "BA3b_exvivo" :> <<118, 15, 30, 8>> @@
        "BA4a_exvivo" :> <<91, 12, 23, 6>> @@
        "BA4p_exvivo" :> <<98, 13, 8, 3>> @@
        "BA44_exvivo" :> <<113, 14, 26, 7>> @@
        "BA45_exvivo" :> <<132, 18, 42, 10>>)

---------------------------------------------------------------------------
(* Shared shapes of the index calculators *)

\* !!map[name]: a measurement object is truthy whatever its fields hold.
Present(map, name) == name \in DOMAIN map

\* A lookup that misses the parahippocampal entry; C21 fails under it.
C21_ReferenceMisses(name) ==
    name \in DOMAIN REFERENCE_DATA_MALE /\ name # "parahippocampal"

HasRef(name) == name \in DOMAIN REFERENCE_DATA_MALE
\* A curvature table that is never found; C24 fails under it.
C24_NoCurvatureTable(name) == FALSE

HasCurvRef(name) == name \in DOMAIN BA_CURVATURE_REFERENCE

\* An optional mapping (lhBA, rhBA): <<>> is undefined, <<m>> is the mapping m.
Undefined == <<>>
Defined(opt) == opt # Undefined

RECURSIVE SumFrom(_, _, _)
SumFrom(seq, i, acc) ==
    IF i > Len(seq) THEN acc ELSE SumFrom(seq, i + 1, XAdd(acc, seq[i]))

\* let total = 0; for (...) total += seq[i]
SumX(seq) == SumFrom(seq, 1, Num(0))

\* One RegionDetail; z-scores and contributions are Number(x.toFixed(3)).  The
\* region label is a sequence of pieces, so that region + ' (Broca)' is label \o <<" (Broca)">>.
RegionDetail(region, weight, zL, zR, cL, cR, weightsUsed) ==
    [region |-> <<region>>, regionWeight |-> weight,
     zL |-> ToFixed(zL, 1000), zR |-> ToFixed(zR, 1000),
     contribL |-> ToFixed(cL, 1000), contribR |-> ToFixed(cR, 1000),
     weightsUsed |-> weightsUsed]

\* The interpretation text the localization function t yields for a value
\* (the get...Interpretation functions of '../interpretations').
LocalizedText(index, value) == "localized"

\* The two sides added, not averaged; C17 fails under it.
C17_SumOfSides(zL, zR) == XAdd(zL, zR)

\* (zL + zR) / 2
Mean2(zL, zR) == XDiv(XAdd(zL, zR), Num(2))
\* a * zL + b * zR
Blend2(a, zL, b, zR) == XAdd(XMul(a, zL), XMul(b, zR))
\* weight * z, weight * z / 2, weight * f * z
ContribFull(weight, z) == XMul(weight, z)
ContribHalf(weight, z) == XDiv(XMul(weight, z), Num(2))
ContribBy(weight, f, z) == XMul(XMul(weight, f), z)

\* How one calculator combines the hemispheres of a region.  rule.blend names the
\* expression added to the total: "mean" is (zL + zR) / 2, "difference" is zL - zR,
\* "weighted" is rule.l * zL + rule.r * zR.  rule.contrib names the expression
\* stored as contribL and contribR: "full" is weight * z, "half" is weight * z / 2,
\* "by" is weight * rule.l * zL and weight * rule.r * zR.
BlendOf(rule, zL, zR) ==
    CASE rule.blend = "mean" -> Mean2(zL, zR)
      [] rule.blend = "difference" -> XSub(zL, zR)
      [] rule.blend = "weighted" -> Blend2(rule.l, zL, rule.r, zR)
ContribOf(rule, f, weight, z) ==
    CASE rule.contrib = "full" -> ContribFull(weight, z)
      [] rule.contrib = "half" -> ContribHalf(weight, z)
      [] rule.contrib = "by" -> ContribBy(weight, f, z)
Symmetric(contrib) == [blend |-> "mean", l |-> Num(1), r |-> Num(1), contrib |-> contrib]
\* The two shares exchanged; C22 fails under it.
C22_SharesExchanged(l, r) == [blend |-> "weighted", l |-> r, r |-> l, contrib |-> "by"]
Weighted(l, r) == [blend |-> "weighted", l |-> l, r |-> r, contrib |-> "by"]
Difference == [blend |-> "difference", l |-> Num(1), r |-> Num(1), contrib |-> "full"]

\* The loop shared by the composite calculators: for each configured
\* <<region, weight>>, skipped unless the reference entry and both hemispheres'
\* measurements exist, the total gains weight * BlendOf(rule, zL, zR) and a detail is pushed.
\* scored lists zL and zR of the regions not skipped, in order.
CompositeLoop(lh, rh, regionWeights, metricWeights, rule) ==
    LET Totals(scored) ==
            [total |-> SumX([i \in 1..Len(scored) |->
                          XMul(scored[i].weight, BlendOf(rule, scored[i].zL, scored[i].zR))]),
             weight |-> SumX([i \in 1..Len(scored) |-> scored[i].weight]),
             details |-> [i \in 1..Len(scored) |->
                            RegionDetail(scored[i].region, scored[i].weight,
                                         scored[i].zL, scored[i].zR,
                                         ContribOf(rule, rule.l, scored[i].weight, scored[i].zL),
                                         ContribOf(rule, rule.r, scored[i].weight, scored[i].zR),
                                         metricWeights)]]
        Scores(used) ==
            Totals([i \in 1..Len(used) |->
                      [region |-> used[i][1], weight |-> used[i][2],
                       zL |-> compositeZScore(lh[used[i][1]], REFERENCE_DATA_MALE[used[i][1]],
                                              metricWeights),
                       zR |-> compositeZScore(rh[used[i][1]], REFERENCE_DATA_MALE[used[i][1]],
                                              metricWeights)]] \o <<>>)
    IN  Scores(SelectSeq(regionWeights,
                   LAMBDA e : HasRef(e[1]) /\ Present(lh, e[1]) /\ Present(rh, e[1])))

\* The IndexResult of a z-score index: value rounded to 1 / scale.
ZResult(name, total, scale, t, details) ==
    [name |-> name,
     value |-> RoundTo(total, scale),
     percentile |-> zToPercentile(total),
     interpretation |-> IF t THEN LocalizedText(name, total) ELSE "",
     details |-> details,
     raised |-> FALSE]

---------------------------------------------------------------------------
(* Cognitive ability indices *)

calculateOlfactoryIndex(d, t) ==
    LET regionWeights == << <<"entorhinal", Dec(60, 100)>>,
                            <<"parahippocampal", Dec(20, 100)>>,
                            <<"medialorbitofrontal", Dec(20, 100)>> >>
        metricWeights == <<Num(80), Num(10), Num(10)>>
        Result(loop) == ZResult("Olfactory Function Index", loop.total, 100, t, loop.details)
    IN  Result(CompositeLoop(d.lh, d.rh, regionWeights, metricWeights, Symmetric("full")))

\* The renormalisation without its guard; C1 fails under it.
C1_DivideAlways(totalIndex, totalWeight) == XDiv(totalIndex, totalWeight)

\* No renormalisation at all; C5 fails under it.
C5_NeverDivide(totalIndex, totalWeight) == totalIndex

\* if (totalWeight > 0 && totalWeight < 1) totalIndex = totalIndex / totalWeight
Renormalized(totalIndex, totalWeight) ==
    IF XLt(Num(0), totalWeight) /\ XLt(totalWeight, Num(1))
    THEN XDiv(totalIndex, totalWeight)
    ELSE totalIndex

calculateLanguageIndex(d, t) ==
    LET dktRegionWeights == << <<"superiortemporal", Dec(25, 100)>>,
                               <<"parsopercularis", Dec(15, 100)>>,
                               <<"parstriangularis", Dec(10, 100)>>,
                               <<"middletemporal", Dec(10, 100)>>,
                               <<"fusiform", Dec(10, 100)>> >>
        baRegionWeights == << <<"BA44_exvivo", Dec(15, 100)>>,
                              <<"BA45_exvivo", Dec(15, 100)>> >>
        metricWeights == <<Num(45), Num(30), Num(25)>>
        hasBA == Defined(d.lhBA) /\ Defined(d.rhBA)
        \* dkt and baLoop are the two loops' outcomes; baLoop is read only under hasBA.
        Result(dkt, baLoop) ==
            ZResult("Language Composite Index",
                    Renormalized(IF hasBA THEN XAdd(dkt.total, baLoop.total) ELSE dkt.total,
                                 IF hasBA THEN XAdd(dkt.weight, baLoop.weight) ELSE dkt.weight),
                    100, t,
                    IF hasBA
                    THEN dkt.details \o
                         [i \in 1..Len(baLoop.details) |->
                             [baLoop.details[i] EXCEPT !.region = @ \o <<" (Broca)">>]]
                    ELSE dkt.details)
    IN  Result(CompositeLoop(d.lh, d.rh, dktRegionWeights, metricWeights,
                             Weighted(Dec(7, 10), Dec(3, 10))),
               CompositeLoop(d.lhBA[1], d.rhBA[1], baRegionWeights, metricWeights,
                             Weighted(Dec(8, 10), Dec(2, 10))))

calculateReadingIndex(d, t) ==
    LET regionWeights == << <<"superiortemporal", Dec(40, 100)>>,
                            <<"supramarginal", Dec(25, 100)>>,
                            <<"inferiorparietal", Dec(20, 100)>>,
                            <<"fusiform", Dec(15, 100)>> >>
        metricWeights == <<Num(50), Num(30), Num(20)>>
        Result(loop) == ZResult("Reading Fluency Index", loop.total, 100, t, loop.details)
    IN  Result(CompositeLoop(d.lh, d.rh, regionWeights, metricWeights,
                   Weighted(Dec(75, 100), Dec(25, 100))))

calculateEmpathyIndex(d, t) ==
    LET regionWeights == << <<"rostralanteriorcingulate", Dec(45, 100)>>,
                            <<"medialorbitofrontal", Dec(25, 100)>>,
                            <<"insula", Dec(20, 100)>>,
                            <<"posteriorcingulate", Dec(10, 100)>> >>
        metricWeights == <<Num(80), Num(10), Num(10)>>
        Result(loop) == ZResult("Empathy Index", loop.total, 100, t, loop.details)
    IN  Result(CompositeLoop(d.lh, d.rh, regionWeights, metricWeights, Symmetric("half")))

calculateExecutiveIndex(d, t) ==
    LET regionWeights == << <<"superiorfrontal", Dec(40, 100)>>,
                            <<"rostralmiddlefrontal", Dec(30, 100)>>,
                            <<"caudalmiddlefrontal", Dec(20, 100)>>,
                            <<"parsopercularis", Dec(10, 100)>> >>
        metricWeights == <<Num(35), Num(25), Num(40)>>
        Result(loop) == ZResult("Executive Function Index", loop.total, 100, t, loop.details)
    IN  Result(CompositeLoop(d.lh, d.rh, regionWeights, metricWeights, Symmetric("half")))

calculateSpatialIndex(d, t) ==
    LET regionWeights == << <<"inferiorparietal", Dec(50, 100)>>,
                            <<"superiorparietal", Dec(35, 100)>>,
                            <<"precuneus", Dec(15, 100)>> >>
        metricWeights == <<Num(20), Num(50), Num(30)>>
        Result(loop) == ZResult("Spatial Processing Index", loop.total, 100, t, loop.details)
    IN  Result(CompositeLoop(d.lh, d.rh, regionWeights, metricWeights,
                   Weighted(Dec(4, 10), Dec(6, 10))))

calculateFluidIntelligenceIndex(d, t) ==
    LET regionWeights == << <<"superiorfrontal", Dec(25, 100)>>,
                            <<"inferiorparietal", Dec(20, 100)>>,
                            <<"superiortemporal", Dec(20, 100)>>,
                            <<"rostralmiddlefrontal", Dec(20, 100)>>,
                            <<"insula", Dec(15, 100)>> >>
        metricWeights == <<Num(30), Num(30), Num(40)>>
        Result(loop) ==
            ZResult("Fluid Intelligence Index (Structural)", loop.total, 100, t, loop.details)
    IN  Result(CompositeLoop(d.lh, d.rh, regionWeights, metricWeights, Symmetric("half")))

\* weight-by-metric z-score written inline by the calculators that carry their
\* own per-region metric weights: wT * zThick + wA * zArea + wX * zX.
InlineZ(wT, zThick, wA, zArea, wX, zX) ==
    XAdd(XAdd(XMul(wT, zThick), XMul(wA, zArea)), XMul(wX, zX))

\* (m.field - ref.mean) / ref.std, written inline.
MetricZ(value, norm) == XDiv(XSub(value, norm.mean), norm.std)

\* The triple with its third share left at zero.
C27_ThirdDropped(w1, w2, w3) ==
    <<ToFixed(XMul(w1, Num(100)), 1), ToFixed(XMul(w2, Num(100)), 1), Num(0)>>

\* `${(w*100).toFixed(0)}` for each of three metric weights.
WeightsUsed(w1, w2, w3) ==
    <<ToFixed(XMul(w1, Num(100)), 1), ToFixed(XMul(w2, Num(100)), 1),
      ToFixed(XMul(w3, Num(100)), 1)>>

calculateParietalIQIndex(d, t) ==
    LET Cfg(name, weight, wThick, wArea, wVol) ==
            [name |-> name, weight |-> Dec(weight, 100), wThick |-> Dec(wThick, 100),
             wArea |-> Dec(wArea, 100), wVol |-> Dec(wVol, 100)]
        parietalRegions == << Cfg("supramarginal", 25, 55, 25, 20),
                              Cfg("inferiorparietal", 25, 50, 28, 22),
                              Cfg("superiorparietal", 22, 52, 28, 20),
                              Cfg("precuneus", 18, 48, 30, 22),
                              Cfg("posteriorcingulate", 10, 45, 30, 25) >>
        Z(m, c, ref) == InlineZ(c.wThick, MetricZ(m.thickness, ref.thickness),
                                c.wArea, MetricZ(m.surfArea, ref.surfArea),
                                c.wVol, MetricZ(m.volume, ref.volume))
        correlationCoefficient == Dec(40, 100)
        \* z is the normalised z-score (the source's local zScore).
        Result(z, details) ==
            LET predictedIQ == MathRound(XAdd(Num(100),
                                   XMul(XMul(z, Num(15)), correlationCoefficient)))
                clampedIQ == MathMax(Num(70), MathMin(Num(145), predictedIQ))
            IN  [name |-> "Parietal IQ Prediction Index",
                 value |-> clampedIQ,
                 zScore |-> RoundTo(z, 100),
                 percentile |-> zToPercentile(z),
                 interpretation |->
                     IF t THEN LocalizedText("Parietal IQ Prediction Index", z) ELSE "",
                 details |-> details,
                 raised |-> FALSE]
        Normalized(totalIndex, totalWeight, details) ==
            Result(IF XLt(Num(0), totalWeight) THEN XDiv(totalIndex, totalWeight) ELSE Num(0),
                   details)
        Totals(used, scored) ==
            Normalized(SumX([i \in 1..Len(used) |->
                             XMul(used[i].weight, Mean2(scored[i].zL, scored[i].zR))]),
                       SumX([i \in 1..Len(used) |-> used[i].weight]),
                       [i \in 1..Len(used) |->
                          RegionDetail(used[i].name, used[i].weight, scored[i].zL, scored[i].zR,
                                       ContribHalf(used[i].weight, scored[i].zL),
                                       ContribHalf(used[i].weight, scored[i].zR),
                                       WeightsUsed(used[i].wThick, used[i].wArea, used[i].wVol))])
        Scores(used) ==
            Totals(used,
                   [i \in 1..Len(used) |->
                      [zL |-> Z(d.lh[used[i].name], used[i], REFERENCE_DATA_MALE[used[i].name]),
                       zR |-> Z(d.rh[used[i].name], used[i], REFERENCE_DATA_MALE[used[i].name])]]
                   \o <<>>)
    IN  Scores(SelectSeq(parietalRegions,
                   LAMBDA c : HasRef(c.name) /\ Present(d.lh, c.name) /\ Present(d.rh, c.name)))

---------------------------------------------------------------------------
(* Lateralization indices *)

\* What a property read of an undefined mapping throws.
TypeError == [name |-> "TypeError", raised |-> TRUE]

\* A config with the thickness and folding weights exchanged; C15 fails under it.
C15_FoldForThickness(name, weight, wThick, wArea, wFold) ==
    [name |-> name, weight |-> Dec(weight, 100), wThick |-> Dec(wFold, 100),
     wArea |-> Dec(wArea, 100), wFold |-> Dec(wThick, 100)]

BACfg(name, weight, wThick, wArea, wFold) ==
    [name |-> name, weight |-> Dec(weight, 100), wThick |-> Dec(wThick, 100),
     wArea |-> Dec(wArea, 100), wFold |-> Dec(wFold, 100)]

\* Whether the loop over the BA configs, run on d, reads a region of an undefined
\* mapping: `!ref || !data.lhBA[name] || !data.rhBA[name]` reads lhBA first and
\* rhBA only when lhBA holds the region.
BAReadThrows(d, configs) ==
    \E i \in 1..Len(configs) :
        /\ HasRef(configs[i].name)
        /\ \/ ~Defined(d.lhBA)
           \/ Present(d.lhBA[1], configs[i].name) /\ ~Defined(d.rhBA)

\* The loop over the BA configs of Handedness and Language Output: per region the
\* z-scores blend thickness, surface area and the folding index (0 unless the
\* curvature reference and both hemispheres' foldInd exist).
BALoop(d, configs) ==
    LET HasFold(c, mL, mR) == /\ HasCurvRef(c.name)
                              /\ "foldInd" \in DOMAIN mL
                              /\ "foldInd" \in DOMAIN mR
        ZFold(m, c, hasFold) ==
            IF hasFold THEN MetricZ(m.foldInd, BA_CURVATURE_REFERENCE[c.name].foldInd)
            ELSE Num(0)
        Z(m, c, ref, hasFold) ==
            InlineZ(c.wThick, MetricZ(m.thickness, ref.thickness),
                    c.wArea, MetricZ(m.surfArea, ref.surfArea),
                    c.wFold, ZFold(m, c, hasFold))
        ZPair(c, mL, mR, ref, hasFold) ==
            [zL |-> Z(mL, c, ref, hasFold), zR |-> Z(mR, c, ref, hasFold)]
        Totals(used, scored) ==
            [sumL |-> SumX([i \in 1..Len(used) |-> XMul(used[i].weight, scored[i].zL)]),
             sumR |-> SumX([i \in 1..Len(used) |-> XMul(used[i].weight, scored[i].zR)]),
             diff |-> SumX([i \in 1..Len(used) |->
                            XMul(used[i].weight, XSub(scored[i].zL, scored[i].zR))]),
             weight |-> SumX([i \in 1..Len(used) |-> used[i].weight]),
             details |-> [i \in 1..Len(used) |->
                            RegionDetail(used[i].name, used[i].weight,
                                         scored[i].zL, scored[i].zR,
                                         XMul(used[i].weight, scored[i].zL),
                                         XMul(used[i].weight, scored[i].zR),
                                         WeightsUsed(used[i].wThick, used[i].wArea,
                                                     used[i].wFold))]]
        Scores(lhBA, rhBA, used) ==
            Totals(used,
                   [i \in 1..Len(used) |->
                      ZPair(used[i], lhBA[used[i].name], rhBA[used[i].name],
                            REFERENCE_DATA_MALE[used[i].name],
                            HasFold(used[i], lhBA[used[i].name], rhBA[used[i].name]))]
                   \o <<>>)
        Over(lhBA, rhBA) ==
            Scores(lhBA, rhBA,
                   SelectSeq(configs, LAMBDA c : /\ HasRef(c.name)
                                                 /\ Present(lhBA, c.name)
                                                 /\ Present(rhBA, c.name)))
    IN  Over(d.lhBA[1], d.rhBA[1])

\* A check for BA data that never finds it missing; C3 fails under it.
C3_NeverMissing(d) == FALSE

\* !data.lhBA || !data.rhBA
NoBAData(d) == ~Defined(d.lhBA) \/ ~Defined(d.rhBA)

\* An early return that asks for localized text without looking for t;
\* C19 fails under it.
C19_NeutralLocalized(name, interpretation) ==
    [name |-> name, value |-> Num(0), percentile |-> Num(50),
     interpretation |-> LocalizedText(name, Num(0)), details |-> <<>>, raised |-> FALSE]

\* The result returned when lhBA or rhBA is undefined.
NeutralResult(name, interpretation) ==
    [name |-> name, value |-> Num(0), percentile |-> Num(50),
     interpretation |-> interpretation, details |-> <<>>, raised |-> FALSE]

\* calculateHandednessIndex past its check for BA data.
HandednessScored(d, t) ==
    LET baRegionConfigs == << BACfg("BA4a_exvivo", 35, 35, 35, 30),
                              BACfg("BA4p_exvivo", 35, 35, 35, 30),
                              BACfg("BA3b_exvivo", 30, 40, 30, 30) >>
        Result(loop) ==
            ZResult("Handedness Index",
                    IF XLt(Num(0), loop.weight) THEN XDiv(loop.diff, loop.weight) ELSE Num(0),
                    1000, t, loop.details)
    IN  IF BAReadThrows(d, baRegionConfigs) THEN TypeError
        ELSE Result(BALoop(d, baRegionConfigs))

calculateHandednessIndex(d, t) ==
    IF NoBAData(d)
    THEN NeutralResult("Handedness Index",
                       IF t THEN LocalizedText("Handedness Index", Num(0)) ELSE "")
    ELSE HandednessScored(d, t)

calculateDominantEyeIndex(d, t) ==
    LET regionWeights == << <<"pericalcarine", Dec(70, 100)>>,
                            <<"cuneus", Dec(15, 100)>>,
                            <<"lingual", Dec(15, 100)>> >>
        metricWeights == <<Num(92), Num(4), Num(4)>>
        Result(loop) == ZResult("Dominant Eye Index", loop.total, 1000, t, loop.details)
    IN  Result(CompositeLoop(d.lh, d.rh, regionWeights, metricWeights, Difference))

\* Every term measured under its own name; C25 fails under it.
C25_NoProxy(r) == r[1]

\* r.name === 'piriform' ? 'entorhinal' : r.name
ActualName(r) == IF r[1] = "piriform" THEN "entorhinal" ELSE r[1]

calculatePreferredNostrilIndex(d, t) ==
    LET regions == << <<"entorhinal", Dec(45, 100)>>,
                      <<"parahippocampal", Dec(20, 100)>>,
                      <<"medialorbitofrontal", Dec(20, 100)>>,
                      <<"insula", Dec(10, 100)>>,
                      <<"piriform", Dec(5, 100)>> >>
        metricWeights == <<Num(70), Num(20), Num(10)>>
        \* oli is rawScore, the sum over the regions of weight * (zR - zL).
        Result(oli, details) ==
            LET linear == MathRound(XAdd(Num(50), XMul(oli, Num(40))))
                percentile == IF XGe(oli, Num(0))
                              THEN MathMin(Num(99), linear)
                              ELSE MathMax(Num(1), linear)
            IN  [name |-> "Preferred Nostril Index",
                 value |-> ToFixed(oli, 1000),
                 zScore |-> ToFixed(oli, 1000),
                 percentile |-> percentile,
                 interpretation |->
                     IF t THEN LocalizedText("Preferred Nostril Index", oli) ELSE "",
                 details |-> details,
                 raised |-> FALSE]
        Totals(used, scored) ==
            Result(SumX([i \in 1..Len(used) |->
                         XMul(used[i][2], XSub(scored[i].zR, scored[i].zL))]),
                   [i \in 1..Len(used) |->
                      RegionDetail(used[i][1], used[i][2], scored[i].zL, scored[i].zR,
                                   XMul(used[i][2], scored[i].zL),
                                   XMul(used[i][2], scored[i].zR), metricWeights)])
        ZPair(mL, mR, ref) == [zL |-> compositeZScore(mL, ref, metricWeights),
                               zR |-> compositeZScore(mR, ref, metricWeights)]
        Scores(used) ==
            Totals(used,
                   [i \in 1..Len(used) |->
                      ZPair(d.lh[ActualName(used[i])], d.rh[ActualName(used[i])],
                            REFERENCE_DATA_MALE[ActualName(used[i])])] \o <<>>)
    IN  Scores(SelectSeq(regions,
                   LAMBDA r : /\ HasRef(ActualName(r))
                              /\ Present(d.lh, ActualName(r))
                              /\ Present(d.rh, ActualName(r))))

\* The ratio without the 0.001 in its denominator; C23 fails under it.
C23_NoEpsilon(sumContribL, sumContribR) ==
    XDiv(XSub(sumContribL, sumContribR), XAdd(MathAbs(sumContribL), MathAbs(sumContribR)))

\* (sumContribL - sumContribR) / (|sumContribL| + |sumContribR| + 0.001)
LateralizationRatio(sumContribL, sumContribR) ==
    XDiv(XSub(sumContribL, sumContribR),
         XAdd(XAdd(MathAbs(sumContribL), MathAbs(sumContribR)), Dec(1, 1000)))

\* Math.round(Math.max(1, Math.min(99, percentile)))
ClampPercentile(percentile) == MathRound(MathMax(Num(1), MathMin(Num(99), percentile)))

\* The piecewise-linear percentile bands of Language Output.
OutputBands(li) ==
    IF XGe(li, Dec(25, 100))
        THEN MathMin(Num(99), XAdd(Num(90), XMul(XSub(li, Dec(25, 100)), Num(30))))
    ELSE IF XGe(li, Dec(10, 100))
        THEN XAdd(Num(70), XMul(XSub(li, Dec(10, 100)), Num(133)))
    ELSE IF XGe(li, Dec(-10, 100))
        THEN XAdd(Num(50), XMul(li, Num(100)))
    ELSE IF XGe(li, Dec(-25, 100))
        THEN XAdd(Num(20), XMul(XAdd(li, Dec(10, 100)), Num(200)))
    ELSE MathMax(Num(1), XAdd(Num(5), XMul(XAdd(li, Dec(25, 100)), Num(60))))

\* The piecewise-linear percentile bands of Language Input.
InputBands(li) ==
    IF XGe(li, Dec(20, 100))
        THEN MathMin(Num(99), XAdd(Num(90), XMul(XSub(li, Dec(20, 100)), Num(40))))
    ELSE IF XGe(li, Dec(5, 100))
        THEN XAdd(Num(70), XMul(XSub(li, Dec(5, 100)), Num(133)))
    ELSE IF XGe(li, Dec(-5, 100))
        THEN XAdd(Num(50), XMul(li, Num(200)))
    ELSE IF XGe(li, Dec(-15, 100))
        THEN XAdd(Num(20), XMul(XAdd(li, Dec(5, 100)), Num(300)))
    ELSE MathMax(Num(1), XAdd(Num(5), XMul(XAdd(li, Dec(15, 100)), Num(100))))

\* The piecewise-linear percentile bands of the combined Language Lateralization.
CombinedBands(li) ==
    IF XGe(li, Dec(20, 100))
        THEN MathMin(Num(99), XAdd(Num(95), XMul(XSub(li, Dec(20, 100)), Num(20))))
    ELSE IF XGe(li, Dec(5, 100))
        THEN XAdd(Num(80), XMul(XSub(li, Dec(5, 100)), Num(100)))
    ELSE IF XGe(li, Dec(-5, 100))
        THEN XAdd(Num(50), XMul(li, Num(300)))
    ELSE IF XGe(li, Dec(-15, 100))
        THEN XAdd(Num(20), XMul(XAdd(li, Dec(5, 100)), Num(300)))
    ELSE MathMax(Num(1), XAdd(Num(5), XMul(XAdd(li, Dec(15, 100)), Num(100))))

getLanguageOutputInterpretation(value, t) ==
    IF ~t THEN ""
    ELSE IF XGe(value, Dec(25, 100)) THEN "languageOutput.strongLeft"
    ELSE IF XGe(value, Dec(10, 100)) THEN "languageOutput.mildLeft"
    ELSE IF XGe(value, Dec(-10, 100)) THEN "languageOutput.bilateral"
    ELSE IF XGe(value, Dec(-25, 100)) THEN "languageOutput.mildRight"
    ELSE "languageOutput.strongRight"

getLanguageInputInterpretation(value, t) ==
    IF ~t THEN ""
    ELSE IF XGe(value, Dec(15, 100)) THEN "languageInput.strongLeft"
    ELSE IF XGe(value, Dec(5, 100)) THEN "languageInput.mildLeft"
    ELSE IF XGe(value, Dec(-5, 100)) THEN "languageInput.bilateral"
    ELSE IF XGe(value, Dec(-15, 100)) THEN "languageInput.mildRight"
    ELSE "languageInput.strongRight"

\* calculateLanguageOutputLateralization past its check for BA data.
LanguageOutputScored(d, t) ==
    LET baBrocaRegions == << BACfg("BA44_exvivo", 60, 40, 35, 25),
                             BACfg("BA45_exvivo", 40, 40, 35, 25) >>
        Result(li, details) ==
            [name |-> "Language Output Lateralization Index",
             value |-> ToFixed(li, 1000),
             percentile |-> ClampPercentile(OutputBands(li)),
             interpretation |-> IF t THEN getLanguageOutputInterpretation(li, t) ELSE "",
             details |-> details,
             raised |-> FALSE]
        Ratio(loop) == Result(LateralizationRatio(loop.sumL, loop.sumR), loop.details)
    IN  IF BAReadThrows(d, baBrocaRegions) THEN TypeError
        ELSE Ratio(BALoop(d, baBrocaRegions))

calculateLanguageOutputLateralization(d, t) ==
    IF NoBAData(d)
    THEN NeutralResult("Language Output Lateralization Index",
                       IF t THEN getLanguageOutputInterpretation(Num(0), t) ELSE "")
    ELSE LanguageOutputScored(d, t)

calculateLanguageInputLateralization(d, t) ==
    LET Cfg(name, weight, wThick, wArea, wVol) ==
            [name |-> name, weight |-> Dec(weight, 100), wThick |-> Dec(wThick, 100),
             wArea |-> Dec(wArea, 100), wVol |-> Dec(wVol, 100)]
        DKT_LANGUAGE_INPUT_REGIONS == << Cfg("superiortemporal", 35, 68, 18, 14),
                                         Cfg("inferiorparietal", 20, 55, 32, 13),
                                         Cfg("middletemporal", 20, 60, 20, 20),
                                         Cfg("supramarginal", 15, 48, 38, 14),
                                         Cfg("fusiform", 10, 45, 20, 35) >>
        Z(m, c, norm) == InlineZ(c.wThick, MetricZ(m.thickness, norm.thickness),
                                 c.wArea, MetricZ(m.surfArea, norm.surfArea),
                                 c.wVol, MetricZ(m.volume, norm.volume))
        Result(li, totalStrength, details) ==
            [name |-> "Language Input Lateralization Index",
             value |-> ToFixed(li, 1000),
             zScore |-> ToFixed(totalStrength, 1000),
             percentile |-> ClampPercentile(InputBands(li)),
             interpretation |-> IF t THEN getLanguageInputInterpretation(li, t) ELSE "",
             details |-> details,
             raised |-> FALSE]
        Totals(used, scored) ==
            Result(LateralizationRatio(
                       SumX([i \in 1..Len(used) |-> XMul(used[i].weight, scored[i].zL)]),
                       SumX([i \in 1..Len(used) |-> XMul(used[i].weight, scored[i].zR)])),
                   SumX([i \in 1..Len(used) |->
                         XMul(Mean2(scored[i].zL, scored[i].zR), used[i].weight)]),
                   [i \in 1..Len(used) |->
                      RegionDetail(used[i].name, used[i].weight, scored[i].zL, scored[i].zR,
                                   XMul(used[i].weight, scored[i].zL),
                                   XMul(used[i].weight, scored[i].zR),
                                   WeightsUsed(used[i].wThick, used[i].wArea, used[i].wVol))])
        Scores(used) ==
            Totals(used,
                   [i \in 1..Len(used) |->
                      [zL |-> Z(d.lh[used[i].name], used[i], REFERENCE_DATA_MALE[used[i].name]),
                       zR |-> Z(d.rh[used[i].name], used[i], REFERENCE_DATA_MALE[used[i].name])]]
                   \o <<>>)
    IN  Scores(SelectSeq(DKT_LANGUAGE_INPUT_REGIONS,
                   LAMBDA c : HasRef(c.name) /\ Present(d.lh, c.name) /\ Present(d.rh, c.name)))

\* Details passed on without their origin; C16 fails under it.
C16_Untagged(details, tag) == details

\* d => ({ ...d, region: d.region + tag }) over a detail list
TagDetails(details, tag) ==
    [i \in 1..Len(details) |-> [details[i] EXCEPT !.region = @ \o <<tag>>]]

calculateLanguageLateralizationIndex(d, t) ==
    LET Result(combinedLI, allDetails) ==
            [name |-> "Language Lateralization Index",
             value |-> ToFixed(combinedLI, 1000),
             percentile |-> ClampPercentile(CombinedBands(combinedLI)),
             interpretation |->
                 IF t THEN LocalizedText("Language Lateralization Index", combinedLI) ELSE "",
             details |-> allDetails,
             raised |-> FALSE]
        Combined(outputResult, inputResult) ==
            IF outputResult.raised THEN outputResult
            ELSE IF inputResult.raised THEN inputResult
            ELSE Result(XAdd(XMul(outputResult.value, Dec(6, 10)),
                             XMul(inputResult.value, Dec(4, 10))),
                        TagDetails(outputResult.details, " (Output)") \o
                        TagDetails(inputResult.details, " (Input)"))
    IN  Combined(calculateLanguageOutputLateralization(d, t),
                 calculateLanguageInputLateralization(d, t))

---------------------------------------------------------------------------
(* parseDKTStats *)

\* One line of the report (content.split('\n')): whether it starts with
\* whitespace, and its words, the maximal runs of non-whitespace characters,
\* each a sequence of characters.
Line(indent, words) == [indent |-> indent, words |-> words]

\* line.includes(s) for an s free of whitespace: s occurs inside one word.
Includes(line, s) ==
    \E k \in 1..Len(line.words) :
        \E i \in 1..(Len(line.words[k]) - Len(s) + 1) :
            \A j \in 1..Len(s) : line.words[k][i + j - 1] = s[j]

\* line.startsWith(c): the line's very first character is c.
StartsWith(line, c) == ~line.indent /\ Len(line.words) > 0 /\ line.words[1][1] = c

\* line.trim().split(/\s+/) of a line that is not blank.
Split(line) == line.words

Digits == <<"0", "1", "2", "3", "4", "5", "6", "7", "8", "9">>
IsDigit(c) == \E i \in 1..10 : Digits[i] = c
DigitVal(c) == (CHOOSE i \in 1..10 : Digits[i] = c) - 1

\* The number of digits of w from position i on.
RECURSIVE DigitRun(_, _)
DigitRun(w, i) == IF i <= Len(w) /\ IsDigit(w[i]) THEN 1 + DigitRun(w, i + 1) ELSE 0

\* The value of the n digits of w from position i, after acc.
RECURSIVE DigitsValue(_, _, _, _)
DigitsValue(w, i, n, acc) ==
    IF n = 0 THEN acc ELSE DigitsValue(w, i + 1, n - 1, 10 * acc + DigitVal(w[i]))

RECURSIVE Pow10(_)
Pow10(k) == IF k = 0 THEN 1 ELSE 10 * Pow10(k - 1)

\* parseFloat(w): an optional sign, then the longest prefix that is a decimal
\* literal (digits, optional fraction, optional exponent) or "Infinity"; what
\* follows is ignored; NaN when there is no such prefix.
ParseFloat(w) ==
    LET At(i) == IF i <= Len(w) THEN w[i] ELSE ""
        signed == At(1) \in {"-", "+"}
        sgn == IF At(1) = "-" THEN -1 ELSE 1
        s0 == IF signed THEN 2 ELSE 1
        ni == DigitRun(w, s0)
        hasDot == At(s0 + ni) = "."
        nf == IF hasDot THEN DigitRun(w, s0 + ni + 1) ELSE 0
        e0 == s0 + ni + (IF hasDot THEN 1 + nf ELSE 0)
        eSigned == At(e0 + 1) \in {"-", "+"}
        eDigitsAt == IF eSigned THEN e0 + 2 ELSE e0 + 1
        ne == IF At(e0) \in {"e", "E"} THEN DigitRun(w, eDigitsAt) ELSE 0
        ex == (IF At(e0 + 1) = "-" THEN -1 ELSE 1) * DigitsValue(w, eDigitsAt, ne, 0)
        mant == DigitsValue(w, s0 + ni + 1, nf, DigitsValue(w, s0, ni, 0))
        infinity == <<"I", "n", "f", "i", "n", "i", "t", "y">>
    IN  IF ni + nf > 0
        THEN IF ex >= nf
             THEN Norm(sgn * mant * Pow10(ex - nf), 1)
             ELSE Norm(sgn * mant, Pow10(nf - ex))
        ELSE IF \A j \in 1..8 : At(s0 + j - 1) = infinity[j]
        THEN <<sgn, 0>>
        ELSE NaN

\* The measurement of a row that fills the curvature fields in with 0; C10 fails under it.
C10_ZeroFilled(parts, extended) ==
    [surfArea |-> ParseFloat(parts[3]), volume |-> ParseFloat(parts[4]),
     thickness |-> ParseFloat(parts[5]),
     meanCurv |-> IF extended /\ Len(parts) >= 10 THEN ParseFloat(parts[7]) ELSE Num(0),
     gausCurv |-> IF extended /\ Len(parts) >= 10 THEN ParseFloat(parts[8]) ELSE Num(0),
     foldInd |-> IF extended /\ Len(parts) >= 10 THEN ParseFloat(parts[9]) ELSE Num(0),
     curvInd |-> IF extended /\ Len(parts) >= 10 THEN ParseFloat(parts[10]) ELSE Num(0)]

\* The regionData of a row of at least 5 parts; parts[k] of the source is
\* parts[k + 1] here (sequences count from 1).
RegionData(parts, extended) ==
    IF extended /\ Len(parts) >= 10
    THEN [surfArea |-> ParseFloat(parts[3]), volume |-> ParseFloat(parts[4]),
          thickness |-> ParseFloat(parts[5]),
          meanCurv |-> ParseFloat(parts[7]), gausCurv |-> ParseFloat(parts[8]),
          foldInd |-> ParseFloat(parts[9]), curvInd |-> ParseFloat(parts[10])]
    ELSE [surfArea |-> ParseFloat(parts[3]), volume |-> ParseFloat(parts[4]),
          thickness |-> ParseFloat(parts[5])]

\* The strings parseDKTStats looks for.
ColHeaders == <<"C", "o", "l", "H", "e", "a", "d", "e", "r", "s">>
MeanCurv == <<"M", "e", "a", "n", "C", "u", "r", "v">>
CurvInd == <<"C", "u", "r", "v", "I", "n", "d">>

\* const data: Record<string, DKTRegionData> = {}
EmptyMap == [k \in {} |-> TRUE]

\* data[key] = regionData
\* An assignment that keeps an entry already present; C13 fails under it.
C13_KeepFirst(map, key, regionData) ==
    [k \in DOMAIN map \cup {key} |-> IF k \in DOMAIN map THEN map[k] ELSE regionData]

Put(map, key, regionData) ==
    [k \in DOMAIN map \cup {key} |-> IF k = key THEN regionData ELSE map[k]]

IsMarker(line) == Includes(line, ColHeaders)

\* A row test that lets comment lines through; C11 fails under it.
C11_CommentsAreRows(line) == Len(line.words) > 0

\* line.trim() && !line.startsWith('#')
IsRow(line) == Len(line.words) > 0 /\ ~StartsWith(line, "#")

\* The loop is at a line.
AtLine == lineNo <= Len(content)

\* The line holds 'ColHeaders': the table starts, in the column mode the line names.
ReadMarker ==
    /\ AtLine
    /\ IsMarker(content[lineNo])
    /\ inTable' = TRUE
    /\ hasExtendedCols' = (Includes(content[lineNo], MeanCurv) \/ Includes(content[lineNo], CurvInd))
    /\ lineNo' = lineNo + 1
    /\ UNCHANGED <<content, parsed, calcVars, primVars>>

\* A data row of at least 5 parts inside the table: its measurement is stored
\* under its first part.
ReadRow ==
    /\ AtLine
    /\ ~IsMarker(content[lineNo])
    /\ inTable
    /\ IsRow(content[lineNo])
    /\ Len(Split(content[lineNo])) >= 5
    /\ parsed' = Put(parsed, Split(content[lineNo])[1],
                     RegionData(Split(content[lineNo]), hasExtendedCols))
    /\ lineNo' = lineNo + 1
    /\ UNCHANGED <<content, inTable, hasExtendedCols, calcVars, primVars>>

\* A skip that also drops the entries read so far; C12 fails under it.
C12_SkipForgets ==
    /\ AtLine
    /\ ~IsMarker(content[lineNo])
    /\ ~(inTable /\ IsRow(content[lineNo]) /\ Len(Split(content[lineNo])) >= 5)
    /\ lineNo' = lineNo + 1
    /\ parsed' = EmptyMap
    /\ UNCHANGED <<content, inTable, hasExtendedCols, calcVars, primVars>>

\* Any other line leaves no trace.
SkipLine ==
    /\ AtLine
    /\ ~IsMarker(content[lineNo])
    /\ ~(inTable /\ IsRow(content[lineNo]) /\ Len(Split(content[lineNo])) >= 5)
    /\ lineNo' = lineNo + 1
    /\ UNCHANGED <<content, inTable, hasExtendedCols, parsed, calcVars, primVars>>

\* Most lines of a generated report.
MaxLines == 3

\* "# ColHeaders StructName ThickStd": a marker that names no curvature column
MarkerPlain ==
    Line(FALSE,
       << <<"#">>,
          <<"C", "o", "l", "H", "e", "a", "d", "e", "r", "s">>,
          <<"S", "t", "r", "u", "c", "t", "N", "a", "m", "e">>,
          <<"T", "h", "i", "c", "k", "S", "t", "d">> >>)

\* "# ColHeaders StructName MeanCurv CurvInd": a marker that names curvature columns
MarkerCurv ==
    Line(FALSE,
       << <<"#">>,
          <<"C", "o", "l", "H", "e", "a", "d", "e", "r", "s">>,
          <<"S", "t", "r", "u", "c", "t", "N", "a", "m", "e">>,
          <<"M", "e", "a", "n", "C", "u", "r", "v">>,
          <<"C", "u", "r", "v", "I", "n", "d">> >>)

\* "# Measure Cortex 1 2 3": a comment
CommentLine ==
    Line(FALSE,
       << <<"#">>,
          <<"M", "e", "a", "s", "u", "r", "e">>,
          <<"C", "o", "r", "t", "e", "x">>,
          <<"1">>,
          <<"2">>,
          <<"3">> >>)

\* a line of whitespace only
BlankLine == Line(TRUE, << >>)

\* "entorhinal 120 480 1600 3.20 0.30 0.05 0.02 5 1"
RowTen ==
    Line(FALSE,
       << <<"e", "n", "t", "o", "r", "h", "i", "n", "a", "l">>,
          <<"1", "2", "0">>,
          <<"4", "8", "0">>,
          <<"1", "6", "0", "0">>,
          <<"3", ".", "2", "0">>,
          <<"0", ".", "3", "0">>,
          <<"0", ".", "0", "5">>,
          <<"0", ".", "0", "2">>,
          <<"5">>,
          <<"1">> >>)

\* "entorhinal 110 470 1500 3.10 0.25"
RowSix ==
    Line(FALSE,
       << <<"e", "n", "t", "o", "r", "h", "i", "n", "a", "l">>,
          <<"1", "1", "0">>,
          <<"4", "7", "0">>,
          <<"1", "5", "0", "0">>,
          <<"3", ".", "1", "0">>,
          <<"0", ".", "2", "5">> >>)

\* "insula 100 200 300": fewer than 5 tokens
RowFour ==
    Line(FALSE,
       << <<"i", "n", "s", "u", "l", "a">>,
          <<"1", "0", "0">>,
          <<"2", "0", "0">>,
          <<"3", "0", "0">> >>)

\* "insula 90 abc -1.5e2 2.9x 0.2 .5 7. 9": 9 tokens, some not plain decimals
RowNine ==
    Line(FALSE,
       << <<"i", "n", "s", "u", "l", "a">>,
          <<"9", "0">>,
          <<"a", "b", "c">>,
          <<"-", "1", ".", "5", "e", "2">>,
          <<"2", ".", "9", "x">>,
          <<"0", ".", "2">>,
          <<".", "5">>,
          <<"7", ".">>,
          <<"9">> >>)

\* "  fusiform 80 450 1450 3.00 0.20 0.04 0.01 4 2": a row after leading whitespace
RowIndented ==
    Line(TRUE,
       << <<"f", "u", "s", "i", "f", "o", "r", "m">>,
          <<"8", "0">>,
          <<"4", "5", "0">>,
          <<"1", "4", "5", "0">>,
          <<"3", ".", "0", "0">>,
          <<"0", ".", "2", "0">>,
          <<"0", ".", "0", "4">>,
          <<"0", ".", "0", "1">>,
          <<"4">>,
          <<"2">> >>)

\* "  # n 1 2 3": a comment after leading whitespace
CommentIndented ==
    Line(TRUE,
       << <<"#">>,
          <<"n">>,
          <<"1">>,
          <<"2">>,
          <<"3">> >>)

\* "Entorhinal 100 460 1400 3.00 0.20": the name of RowTen and RowSix in another case
RowUpper ==
    Line(FALSE,
       << <<"E", "n", "t", "o", "r", "h", "i", "n", "a", "l">>,
          <<"1", "0", "0">>,
          <<"4", "6", "0">>,
          <<"1", "4", "0", "0">>,
          <<"3", ".", "0", "0">>,
          <<"0", ".", "2", "0">> >>)

\* "ColHeaders StructName NumVert SurfArea GrayVol": a marker that is no comment
MarkerBare ==
    Line(FALSE,
       << <<"C", "o", "l", "H", "e", "a", "d", "e", "r", "s">>,
          <<"S", "t", "r", "u", "c", "t", "N", "a", "m", "e">>,
          <<"N", "u", "m", "V", "e", "r", "t">>,
          <<"S", "u", "r", "f", "A", "r", "e", "a">>,
          <<"G", "r", "a", "y", "V", "o", "l">> >>)

LineSet ==
    {MarkerPlain, MarkerCurv, MarkerBare, CommentLine, BlankLine, RowTen, RowSix, RowUpper,
     RowFour, RowNine, RowIndented, CommentIndented}

Reports == UNION {[1..n -> LineSet] : n \in 0..MaxLines}

ParseIdle ==
    /\ content = << >>
    /\ lineNo = 1
    /\ inTable = FALSE
    /\ hasExtendedCols = FALSE
    /\ parsed = EmptyMap

---------------------------------------------------------------------------
(* The datasets the calculators are run on *)

\* Largest offset, in standard deviations, of a generated measurement from its
\* reference mean (before the per-region shift).
MaxOff == 1

BARegions == {"BA3b_exvivo", "BA4a_exvivo", "BA4p_exvivo", "BA44_exvivo", "BA45_exvivo"}
StdRegions == (DOMAIN REFERENCE_DATA_MALE) \ BARegions

\* Regions that appear or vanish together in the presence sweep.  No calculator
\* uses two regions of one group, so every subset of every calculator's regions occurs.
RegionGroup ==
    [r \in DOMAIN REFERENCE_DATA_MALE |->
        CASE r \in {"cuneus", "parsopercularis", "supramarginal", "insula",
                    "BA4a_exvivo"} -> 2
          [] r \in {"lingual", "medialorbitofrontal", "parstriangularis",
                    "inferiorparietal", "BA4p_exvivo"} -> 3
          [] r \in {"parahippocampal", "middletemporal", "rostralanteriorcingulate",
                    "superiorfrontal", "superiorparietal"} -> 4
          [] r \in {"fusiform", "rostralmiddlefrontal", "precuneus"} -> 5
          [] r = "BA44_exvivo" -> 6
          [] r = "BA45_exvivo" -> 7
          [] OTHER -> 1]
Groups == 1..7
InGroups(g) == {r \in DOMAIN REFERENCE_DATA_MALE : RegionGroup[r] \in g}

\* With tilt, a region's offsets are shifted by -1, 0 or 1 according to its group,
\* so that the regions of one index differ in their z-scores.
Shift(r, tilt) == IF tilt THEN (RegionGroup[r] % 3) - 1 ELSE 0

\* mean + k * std
AtOffset(norm, k) == XAdd(norm.mean, XMul(Num(k), norm.std))

\* The measurement of standard region r at offsets k = <<thickness, area, volume>>.
Meas(r, k, tilt) ==
    LET At(ref, shift) ==
            [thickness |-> AtOffset(ref.thickness, k[1] + shift),
             surfArea |-> AtOffset(ref.surfArea, k[2] + shift),
             volume |-> AtOffset(ref.volume, k[3] + shift)]
    IN  At(REFERENCE_DATA_MALE[r], Shift(r, tilt))

\* The measurement of BA region r: with curvature columns the folding index sits
\* at offset k[3] too, and the other three curvature fields are filled in.
BAMeas(r, k, tilt, curv) ==
    IF curv
    THEN Meas(r, k, tilt) @@
         [meanCurv |-> BA_CURVATURE_REFERENCE[r].meanCurv.mean,
          gausCurv |-> Dec(2, 100),
          foldInd |-> AtOffset(BA_CURVATURE_REFERENCE[r].foldInd, k[3] + Shift(r, tilt)),
          curvInd |-> Num(1)]
    ELSE Meas(r, k, tilt)

\* A dataset: pl, pr the regions present left and right; bl, br whether lhBA and
\* rhBA are defined; kl, kr the offsets; cl, cr whether the BA files had curvature columns.
MkData(pl, pr, bl, br, kl, kr, tilt, cl, cr) ==
    [lh |-> [r \in pl \cap StdRegions |-> Meas(r, kl, tilt)],
     rh |-> [r \in pr \cap StdRegions |-> Meas(r, kr, tilt)],
     lhBA |-> IF bl THEN <<[r \in pl \cap BARegions |-> BAMeas(r, kl, tilt, cl)]>>
              ELSE Undefined,
     rhBA |-> IF br THEN <<[r \in pr \cap BARegions |-> BAMeas(r, kr, tilt, cr)]>>
              ELSE Undefined]

AllRegions == DOMAIN REFERENCE_DATA_MALE
Offsets == {<<a, b, c>> : a \in -MaxOff..MaxOff, b \in -MaxOff..MaxOff, c \in -MaxOff..MaxOff}
Zero3 == <<0, 0, 0>>
BaseL == <<1, 0, -1>>
BaseR == <<0, 1, 1>>

\* Every union of groups present in both hemispheres.
PresenceSweep ==
    {MkData(InGroups(g), InGroups(g), TRUE, TRUE, BaseL, BaseR, TRUE, TRUE, TRUE) :
        g \in SUBSET Groups}

\* Every region present, at uniform offsets; the right side at the mean or at
\* the left side's offsets rotated.
ValueSweep ==
    {MkData(AllRegions, AllRegions, TRUE, TRUE, kl, kr, FALSE, TRUE, TRUE) :
        kl \in Offsets, kr \in {Zero3}} \cup
    {MkData(AllRegions, AllRegions, TRUE, TRUE, kl, <<kl[3], kl[1], kl[2]>>, FALSE, TRUE, TRUE) :
        kl \in Offsets}

\* One group missing from one hemisphere only.
OneSided ==
    {MkData(AllRegions \ InGroups({g}), AllRegions, TRUE, TRUE, BaseL, BaseR, TRUE, TRUE, TRUE) :
        g \in Groups} \cup
    {MkData(AllRegions, AllRegions \ InGroups({g}), TRUE, TRUE, BaseL, BaseR, TRUE, TRUE, TRUE) :
        g \in Groups}

FullData == MkData(AllRegions, AllRegions, TRUE, TRUE, BaseL, BaseR, TRUE, TRUE, TRUE)
EmptyBoth == MkData({}, {}, TRUE, TRUE, BaseL, BaseR, TRUE, TRUE, TRUE)

\* lhBA or rhBA undefined, over full and empty standard mappings.
NoSubregions ==
    {MkData(p, p, bl, br, BaseL, BaseR, TRUE, TRUE, TRUE) :
        p \in {AllRegions, {}},
        bl \in BOOLEAN, br \in BOOLEAN} \ {FullData, EmptyBoth}

\* BA files without curvature columns on one side or both.
NoCurvature ==
    {MkData(AllRegions, AllRegions, TRUE, TRUE, kl, Zero3, tilt, cl, cr) :
        kl \in {BaseL, <<1, 1, 0>>}, tilt \in BOOLEAN,
        cl \in BOOLEAN, cr \in BOOLEAN}

\* A full dataset with one field of one region unparseable (NaN).
NaNSide(m, r, f) == [m EXCEPT ![r][f] = NaN]
NaNStd == {"entorhinal", "superiortemporal", "insula", "parsopercularis",
           "inferiorparietal", "pericalcarine"}
NaNBA == {"BA4a_exvivo", "BA44_exvivo"}
WithNaN ==
    LET Broken(full) ==
            {[full EXCEPT !.lh = NaNSide(@, r, f)] :
                r \in NaNStd, f \in {"thickness", "surfArea", "volume"}} \cup
            {[full EXCEPT !.rh = NaNSide(@, r, f)] :
                r \in NaNStd, f \in {"thickness", "surfArea", "volume"}} \cup
            {[full EXCEPT !.lhBA = <<NaNSide(@[1], r, f)>>] :
                r \in NaNBA, f \in {"thickness", "surfArea", "volume", "foldInd"}} \cup
            {[full EXCEPT !.rhBA = <<NaNSide(@[1], r, f)>>] :
                r \in NaNBA, f \in {"thickness", "surfArea", "volume", "foldInd"}}
    IN  Broken(FullData)

\* Every region present and far from the mean, the same on both sides: the
\* datasets on which the Parietal IQ leaves its range before it is clamped.
FarOff == 8
FarFromMean ==
    {MkData(AllRegions, AllRegions, TRUE, TRUE, <<k, k, k>>, <<k, k, k>>, FALSE, TRUE, TRUE) :
        k \in {-FarOff, FarOff}}

\* The two hemispheres far apart, each in turn the larger: the datasets on
\* which the lateralization percentiles leave [1, 99] before they are clamped.
FarApart ==
    {MkData(AllRegions, AllRegions, TRUE, TRUE, <<k, k, k>>, <<-k, -k, -k>>, FALSE, TRUE, TRUE) :
        k \in {-FarOff, FarOff}}

\* Only pericalcarine measured, as a stats file prints it (thickness to three
\* decimals, whole surface area and volume), the two sides so far apart that
\* weight x (zL - zR) is 1.7465, halfway between two values of three decimals.
HalfwayApart ==
    [lh |-> [r \in {"pericalcarine"} |->
                [thickness |-> Dec(1875, 1000), surfArea |-> Num(2005), volume |-> Num(1837)]],
     rh |-> [r \in {"pericalcarine"} |->
                [thickness |-> Dec(1504, 1000), surfArea |-> Num(1317), volume |-> Num(2127)]],
     lhBA |-> EmptyBoth.lhBA,
     rhBA |-> EmptyBoth.rhBA]

DataSets ==
    PresenceSweep \cup ValueSweep \cup OneSided \cup NoSubregions \cup NoCurvature \cup
    WithNaN \cup FarFromMean \cup FarApart \cup {HalfwayApart}

---------------------------------------------------------------------------
(* The calculators as operations on a loaded dataset *)

Calculators ==
    {"calculateOlfactoryIndex", "calculateLanguageIndex", "calculateReadingIndex",
     "calculateEmpathyIndex", "calculateExecutiveIndex", "calculateSpatialIndex",
     "calculateFluidIntelligenceIndex", "calculateParietalIQIndex",
     "calculateHandednessIndex", "calculateDominantEyeIndex",
     "calculatePreferredNostrilIndex", "calculateLanguageOutputLateralization",
     "calculateLanguageInputLateralization", "calculateLanguageLateralizationIndex"}

\* The result of calculator c on dataset d with localization t.
Run(c, d, t) ==
    CASE c = "calculateOlfactoryIndex" -> calculateOlfactoryIndex(d, t)
      [] c = "calculateLanguageIndex" -> calculateLanguageIndex(d, t)
      [] c = "calculateReadingIndex" -> calculateReadingIndex(d, t)
      [] c = "calculateEmpathyIndex" -> calculateEmpathyIndex(d, t)
      [] c = "calculateExecutiveIndex" -> calculateExecutiveIndex(d, t)
      [] c = "calculateSpatialIndex" -> calculateSpatialIndex(d, t)
      [] c = "calculateFluidIntelligenceIndex" -> calculateFluidIntelligenceIndex(d, t)
      [] c = "calculateParietalIQIndex" -> calculateParietalIQIndex(d, t)
      [] c = "calculateHandednessIndex" -> calculateHandednessIndex(d, t)
      [] c = "calculateDominantEyeIndex" -> calculateDominantEyeIndex(d, t)
      [] c = "calculatePreferredNostrilIndex" -> calculatePreferredNostrilIndex(d, t)
      [] c = "calculateLanguageOutputLateralization" ->
            calculateLanguageOutputLateralization(d, t)
      [] c = "calculateLanguageInputLateralization" ->
            calculateLanguageInputLateralization(d, t)
      [] c = "calculateLanguageLateralizationIndex" ->
            calculateLanguageLateralizationIndex(d, t)

NoResult == [name |-> "none", raised |-> FALSE]

PrimIdle ==
    /\ fn = "none"
    /\ arg = <<>>
    /\ ret = <<>>
    /\ prevArg = <<>>
    /\ prevRet = <<>>

Init ==
    /\ dktData \in DataSets
    /\ calc = "none"
    /\ withT = FALSE
    /\ result = NoResult
    /\ calls = 0
    /\ PrimIdle
    /\ ParseIdle

\* A call that hands back the result of the call before it, if there was one;
\* C18 fails under it.
C18_ReturnsCached(c, t, r) ==
    /\ calc' = c
    /\ withT' = t
    /\ result' = IF calc = "none" THEN r ELSE result
    /\ calls' = calls + 1
    /\ UNCHANGED <<dktData, primVars, parseVars>>

\* One call of calculator c: the caller receives r; nothing else is written.
Invoke(c, t, r) ==
    /\ calc' = c
    /\ withT' = t
    /\ result' = r
    /\ calls' = calls + 1
    /\ UNCHANGED <<dktData, primVars, parseVars>>

\* A caller invokes calculator c on the loaded dataset, with (t) or without a
\* localization function, and receives r.  The calculators read nothing but their
\* arguments and write nothing but their result, so one call per loaded dataset
\* shows every call.
Call(c, t, r) ==
    /\ calc = "none"
    /\ Invoke(c, t, r)

CalcOlfactory ==
    \E t \in BOOLEAN : Call("calculateOlfactoryIndex", t, calculateOlfactoryIndex(dktData, t))
CalcLanguage ==
    \E t \in BOOLEAN : Call("calculateLanguageIndex", t, calculateLanguageIndex(dktData, t))
CalcReading ==
    \E t \in BOOLEAN : Call("calculateReadingIndex", t, calculateReadingIndex(dktData, t))
CalcEmpathy ==
    \E t \in BOOLEAN : Call("calculateEmpathyIndex", t, calculateEmpathyIndex(dktData, t))
CalcExecutive ==
    \E t \in BOOLEAN : Call("calculateExecutiveIndex", t, calculateExecutiveIndex(dktData, t))
CalcSpatial ==
    \E t \in BOOLEAN : Call("calculateSpatialIndex", t, calculateSpatialIndex(dktData, t))
CalcFluidIntelligence ==
    \E t \in BOOLEAN : Call("calculateFluidIntelligenceIndex", t, calculateFluidIntelligenceIndex(dktData, t))
CalcParietalIQ ==
    \E t \in BOOLEAN : Call("calculateParietalIQIndex", t, calculateParietalIQIndex(dktData, t))
CalcHandedness ==
    \E t \in BOOLEAN : Call("calculateHandednessIndex", t, calculateHandednessIndex(dktData, t))
CalcDominantEye ==
    \E t \in BOOLEAN : Call("calculateDominantEyeIndex", t, calculateDominantEyeIndex(dktData, t))
CalcPreferredNostril ==
    \E t \in BOOLEAN : Call("calculatePreferredNostrilIndex", t, calculatePreferredNostrilIndex(dktData, t))
CalcLanguageOutput ==
    \E t \in BOOLEAN : Call("calculateLanguageOutputLateralization", t, calculateLanguageOutputLateralization(dktData, t))
CalcLanguageInput ==
    \E t \in BOOLEAN : Call("calculateLanguageInputLateralization", t, calculateLanguageInputLateralization(dktData, t))
CalcLanguageLateralization ==
    \E t \in BOOLEAN : Call("calculateLanguageLateralizationIndex", t, calculateLanguageLateralizationIndex(dktData, t))

Next ==
    \/ CalcOlfactory
    \/ CalcLanguage
    \/ CalcReading
    \/ CalcEmpathy
    \/ CalcExecutive
    \/ CalcSpatial
    \/ CalcFluidIntelligence
    \/ CalcParietalIQ
    \/ CalcHandedness
    \/ CalcDominantEye
    \/ CalcPreferredNostril
    \/ CalcLanguageOutput
    \/ CalcLanguageInput
    \/ CalcLanguageLateralization

Spec == Init /\ [][Next]_vars

---------------------------------------------------------------------------
(* Calculators called one after another on the same dataset *)

\* The datasets the sequences of calls run on.
SeqData == {FullData, EmptyBoth} \cup NoSubregions

\* The longest sequence of calls followed.
MaxCalls == 2

InitSeq ==
    /\ dktData \in SeqData
    /\ calc = "none"
    /\ withT = FALSE
    /\ result = NoResult
    /\ calls = 0
    /\ PrimIdle
    /\ ParseIdle

\* Any calculator is called, whatever was called before.
CallAny ==
    /\ calls < MaxCalls
    /\ \E c \in Calculators, t \in BOOLEAN : Invoke(c, t, Run(c, dktData, t))

NextSeq == CallAny

SpecSeq == InitSeq /\ [][NextSeq]_vars

---------------------------------------------------------------------------
(* The primitives applied on their own *)

\* The z grid runs from -ZMax/4 to ZMax/4 in quarters.
ZMax == 16

ZGrid == {Dec(i, 4) : i \in -ZMax..ZMax} \cup {Num(7), Num(-7), NaN, PInf, NInf}

\* <<value, mean, std>>: values at whole offsets from the mean, at 1, and the
\* special values; std also 0 and negative.
ZScoreInputs ==
    {<<AtOffset([mean |-> m, std |-> sd], k), m, sd>> :
        m \in {Num(0), Dec(5, 2), Num(1000)},
        sd \in {Num(0), Dec(1, 10), Dec(15, 100), Num(150), Num(-2)},
        k \in -MaxOff..MaxOff} \cup
    {<<v, m, sd>> :
        v \in {Num(1), NaN, PInf},
        m \in {Num(0), Dec(5, 2)},
        sd \in {Num(0), Dec(1, 10), PInf}}

MetricWeightSets ==
    {<<Num(80), Num(10), Num(10)>>, <<Num(45), Num(30), Num(25)>>,
     <<Num(92), Num(4), Num(4)>>, <<Num(20), Num(50), Num(30)>>}

\* <<data, ref, weights>>: a region's measurement at offsets from its reference.
CompositeInputs ==
    {<<Meas(r, k, FALSE), REFERENCE_DATA_MALE[r], w>> :
        r \in {"entorhinal", "precuneus", "BA44_exvivo"},
        k \in Offsets, w \in MetricWeightSets}

\* What a primitive hands back: none of the three can throw.
Returned(x) == [raised |-> FALSE, value |-> x]

CalcIdle ==
    /\ dktData = EmptyBoth
    /\ calc = "none"
    /\ withT = FALSE
    /\ result = NoResult
    /\ calls = 0

InitPrim ==
    /\ CalcIdle
    /\ PrimIdle
    /\ ParseIdle

\* The primitives are pure: zScore and compositeZScore are applied once per run,
\* zToPercentile any number of times, the call before being remembered.
CallZScore ==
    \E a \in ZScoreInputs :
        /\ fn = "none"
        /\ fn' = "zScore"
        /\ arg' = a
        /\ ret' = Returned(zScore(a[1], a[2], a[3]))
        /\ prevArg' = <<>>
        /\ prevRet' = <<>>
        /\ UNCHANGED <<calcVars, parseVars>>

CallCompositeZScore ==
    \E a \in CompositeInputs :
        /\ fn = "none"
        /\ fn' = "compositeZScore"
        /\ arg' = a
        /\ ret' = Returned(compositeZScore(a[1], a[2], a[3]))
        /\ prevArg' = <<>>
        /\ prevRet' = <<>>
        /\ UNCHANGED <<calcVars, parseVars>>

CallZToPercentile ==
    \E z \in ZGrid :
        /\ fn \in {"none", "zToPercentile"}
        /\ fn' = "zToPercentile"
        /\ arg' = <<z>>
        /\ ret' = Returned(zToPercentile(z))
        /\ prevArg' = IF fn = "zToPercentile" THEN arg ELSE <<>>
        /\ prevRet' = IF fn = "zToPercentile" THEN ret ELSE <<>>
        /\ UNCHANGED <<calcVars, parseVars>>

\* The lateralization indexes the percentile maps are applied to: [-1, 1] in
\* steps of 1 / LISteps, and each band edge of the three maps with the values
\* one hundredth below and above it.
LISteps == 20

BandEdges ==
    {Dec(25, 100), Dec(20, 100), Dec(10, 100), Dec(5, 100),
     Dec(-5, 100), Dec(-10, 100), Dec(-15, 100), Dec(-25, 100)}

LIGrid ==
    {Dec(i, LISteps) : i \in -LISteps..LISteps} \cup
    UNION {{XSub(e, Dec(1, 100)), e, XAdd(e, Dec(1, 100))} : e \in BandEdges}

\* The percentile the three language lateralization calculators report for li:
\* Math.round(Math.max(1, Math.min(99, percentile))) over their own bands.
BandMaps == {"LanguageOutput.percentile", "LanguageInput.percentile",
             "LanguageLateralization.percentile"}

PercentileOf(map, li) ==
    CASE map = "LanguageOutput.percentile" -> ClampPercentile(OutputBands(li))
      [] map = "LanguageInput.percentile" -> ClampPercentile(InputBands(li))
      [] map = "LanguageLateralization.percentile" -> ClampPercentile(CombinedBands(li))

\* A percentile map is pure: it is applied to one index and then to a second,
\* the first application being remembered, which reaches every pair of indexes.
CallBands ==
    \E map \in BandMaps, li \in LIGrid :
        /\ fn \in {"none", map}
        /\ prevArg = <<>>
        /\ fn' = map
        /\ arg' = <<li>>
        /\ ret' = Returned(PercentileOf(map, li))
        /\ prevArg' = IF fn = map THEN arg ELSE <<>>
        /\ prevRet' = IF fn = map THEN ret ELSE <<>>
        /\ UNCHANGED <<calcVars, parseVars>>

NextPrim ==
    \/ CallZScore
    \/ CallCompositeZScore
    \/ CallZToPercentile
    \/ CallBands

SpecPrim == InitPrim /\ [][NextPrim]_vars

---------------------------------------------------------------------------
(* parseDKTStats run over the generated reports *)

InitParse ==
    /\ CalcIdle
    /\ PrimIdle
    /\ content \in Reports
    /\ lineNo = 1
    /\ inTable = FALSE
    /\ hasExtendedCols = FALSE
    /\ parsed = EmptyMap

NextParse ==
    \/ ReadMarker
    \/ ReadRow
    \/ SkipLine

SpecParse == InitParse /\ [][NextParse]_vars

---------------------------------------------------------------------------
(* Properties *)

Called == calc # "none"

\* The regions each calculator reads (piriform stands for entorhinal).
RegionsOf ==
    [c \in Calculators |->
        CASE c = "calculateOlfactoryIndex" ->
                {"entorhinal", "parahippocampal", "medialorbitofrontal"}
          [] c = "calculateLanguageIndex" ->
                {"superiortemporal", "parsopercularis", "parstriangularis",
                 "middletemporal", "fusiform", "BA44_exvivo", "BA45_exvivo"}
          [] c = "calculateReadingIndex" ->
                {"superiortemporal", "supramarginal", "inferiorparietal", "fusiform"}
          [] c = "calculateEmpathyIndex" ->
                {"insula", "rostralanteriorcingulate", "medialorbitofrontal",
                 "posteriorcingulate"}
          [] c = "calculateExecutiveIndex" ->
                {"rostralmiddlefrontal", "caudalmiddlefrontal", "superiorfrontal",
                 "parsopercularis"}
          [] c = "calculateSpatialIndex" ->
                {"superiorparietal", "inferiorparietal", "precuneus"}
          [] c = "calculateFluidIntelligenceIndex" ->
                {"superiorfrontal", "inferiorparietal", "superiortemporal",
                 "rostralmiddlefrontal", "insula"}
          [] c = "calculateParietalIQIndex" ->
                {"supramarginal", "inferiorparietal", "superiorparietal", "precuneus",
                 "posteriorcingulate"}
          [] c = "calculateHandednessIndex" ->
                {"BA4a_exvivo", "BA4p_exvivo", "BA3b_exvivo"}
          [] c = "calculateDominantEyeIndex" -> {"pericalcarine", "cuneus", "lingual"}
          [] c = "calculatePreferredNostrilIndex" ->
                {"entorhinal", "parahippocampal", "medialorbitofrontal", "insula"}
          [] c = "calculateLanguageOutputLateralization" -> {"BA44_exvivo", "BA45_exvivo"}
          [] c = "calculateLanguageInputLateralization" ->
                {"superiortemporal", "inferiorparietal", "middletemporal",
                 "supramarginal", "fusiform"}
          [] c = "calculateLanguageLateralizationIndex" ->
                {"BA44_exvivo", "BA45_exvivo", "superiortemporal", "inferiorparietal",
                 "middletemporal", "supramarginal", "fusiform"}]

\* The region names an optional mapping holds.
NamesIn(opt) == IF Defined(opt) THEN DOMAIN opt[1] ELSE {}

\* Every region name the dataset holds, in any of its four mappings.
NamesOf(d) == DOMAIN d.lh \cup DOMAIN d.rh \cup NamesIn(d.lhBA) \cup NamesIn(d.rhBA)

\* The dataset holds none of the regions the called calculator reads.
HoldsNone == Called /\ RegionsOf[calc] \cap NamesOf(dktData) = {}

Neutral(value) ==
    /\ ~result.raised
    /\ result.value = Num(value)
    /\ result.percentile = Num(50)
    /\ result.details = << >>

\* C1 as stated: a calculator run on a dataset that holds none of its regions
\* returns, without raising, value 0, percentile 50 and no details.
C1_MissingAllGivesZero == HoldsNone => Neutral(0)

\* C1, amended: a calculator run on a dataset that holds none of its regions
\* returns, without raising, percentile 50 and no details; its value is 0,
\* except for the Parietal IQ index, whose value is the IQ 100 and whose zScore is 0.
C1_MissingAllGivesNeutral ==
    HoldsNone =>
        IF calc = "calculateParietalIQIndex"
        THEN Neutral(100) /\ result.zScore = Num(0)
        ELSE Neutral(0)

\* Parietal IQ has run on a dataset that holds subregions but none of its regions.
C1_ParietalOnForeignData ==
    /\ HoldsNone
    /\ calc = "calculateParietalIQIndex"
    /\ NamesOf(dktData) # {}
    /\ result.value = Num(100)

\* The regions of mapping m with a NaN field.
NaNRegions(m) == {r \in DOMAIN m : \E f \in DOMAIN m[r] : IsNaN(m[r][f])}
NaNNames(d) ==
    NaNRegions(d.lh) \cup NaNRegions(d.rh) \cup
    (IF Defined(d.lhBA) THEN NaNRegions(d.lhBA[1]) ELSE {}) \cup
    (IF Defined(d.rhBA) THEN NaNRegions(d.rhBA[1]) ELSE {})

Drop(m, names) == [r \in DOMAIN m \ names |-> m[r]]

\* The dataset without the regions that carry a NaN field.
WithoutNaNRegions(d) ==
    [lh |-> Drop(d.lh, NaNNames(d)),
     rh |-> Drop(d.rh, NaNNames(d)),
     lhBA |-> IF Defined(d.lhBA) THEN <<Drop(d.lhBA[1], NaNNames(d))>> ELSE Undefined,
     rhBA |-> IF Defined(d.rhBA) THEN <<Drop(d.rhBA[1], NaNNames(d))>> ELSE Undefined]

FiniteData(d) == NaNNames(d) = {}

\* C2: a region with a NaN field counts as missing: value and percentile are
\* those of the dataset without that region, and neither is NaN.
C2_NaNRegionIsSkipped ==
    (Called /\ ~FiniteData(dktData)) =>
        /\ ~result.raised
        /\ ~IsNaN(result.value)
        /\ ~IsNaN(result.percentile)
        /\ result.value = Run(calc, WithoutNaNRegions(dktData), withT).value
        /\ result.percentile = Run(calc, WithoutNaNRegions(dktData), withT).percentile

\* C3: Handedness and Language Output, run on a dataset without subregion
\* mappings, return value 0, percentile 50 and no details, and do not raise,
\* whatever the standard mappings hold.
C3_NoSubregionsGivesNeutral ==
    (/\ calc \in {"calculateHandednessIndex", "calculateLanguageOutputLateralization"}
     /\ (~Defined(dktData.lhBA) \/ ~Defined(dktData.rhBA)))
        => Neutral(0)

\* Handedness has run on full standard mappings and no subregion mappings.
C3_HandednessWithoutSubregions ==
    /\ calc = "calculateHandednessIndex"
    /\ ~Defined(dktData.lhBA)
    /\ ~Defined(dktData.rhBA)
    /\ DOMAIN dktData.lh = StdRegions
    /\ Neutral(0)

\* C4: zScore fails, and returns nothing, when std is 0 (or negative).
C4_ZeroStdFails ==
    (fn = "zScore" /\ XLe(arg[3], Num(0))) => ret.raised

\* The Language Composite configuration as the index is specified: region,
\* weight, and the shares of the left and right z-scores.
LanguageParts ==
    << <<"superiortemporal", Dec(25, 100), Dec(7, 10), Dec(3, 10)>>,
       <<"parsopercularis", Dec(15, 100), Dec(7, 10), Dec(3, 10)>>,
       <<"parstriangularis", Dec(10, 100), Dec(7, 10), Dec(3, 10)>>,
       <<"middletemporal", Dec(10, 100), Dec(7, 10), Dec(3, 10)>>,
       <<"fusiform", Dec(10, 100), Dec(7, 10), Dec(3, 10)>>,
       <<"BA44_exvivo", Dec(15, 100), Dec(8, 10), Dec(2, 10)>>,
       <<"BA45_exvivo", Dec(15, 100), Dec(8, 10), Dec(2, 10)>> >>

\* The two hemispheres' mappings a Language Composite region is read from.
LanguageSides(d, r) ==
    IF r \in BARegions
    THEN IF Defined(d.lhBA) /\ Defined(d.rhBA) THEN <<d.lhBA[1], d.rhBA[1]>> ELSE << <<>>, <<>> >>
    ELSE <<d.lh, d.rh>>

\* The configured regions that contribute on dataset d.
LanguageContributing(d) ==
    SelectSeq(LanguageParts,
              LAMBDA e : /\ e[1] \in DOMAIN LanguageSides(d, e[1])[1]
                         /\ e[1] \in DOMAIN LanguageSides(d, e[1])[2])

\* Their total weight W and the raw weighted sum of their blended z-scores.
LanguageW(d) ==
    SumX([i \in 1..Len(LanguageContributing(d)) |-> LanguageContributing(d)[i][2]])
LanguageBlended(d, e) ==
    XAdd(XMul(e[3], compositeZScore(LanguageSides(d, e[1])[1][e[1]], REFERENCE_DATA_MALE[e[1]],
                                    <<Num(45), Num(30), Num(25)>>)),
         XMul(e[4], compositeZScore(LanguageSides(d, e[1])[2][e[1]], REFERENCE_DATA_MALE[e[1]],
                                    <<Num(45), Num(30), Num(25)>>)))
LanguageRaw(d) ==
    SumX([i \in 1..Len(LanguageContributing(d)) |->
            XMul(LanguageContributing(d)[i][2], LanguageBlended(d, LanguageContributing(d)[i]))])

\* The result reports the index x: value is x to 2 decimals, percentile is that of x.
Reports2(x) ==
    /\ ~result.raised
    /\ result.value = RoundTo(x, 100)
    /\ result.percentile = zToPercentile(x)

\* C5: the Language Composite index is the raw weighted sum divided by W when
\* the contributing weights total W with 0 < W < 1, and the raw weighted sum
\* itself when every configured region contributes.
C5_LanguageRenormalised ==
    calc = "calculateLanguageIndex" =>
        /\ (XLt(Num(0), LanguageW(dktData)) /\ XLt(LanguageW(dktData), Num(1)))
              => Reports2(XDiv(LanguageRaw(dktData), LanguageW(dktData)))
        /\ Len(LanguageContributing(dktData)) = Len(LanguageParts)
              => Reports2(LanguageRaw(dktData))

\* Language Composite has run on regions of total weight 0.6, and dividing by
\* 0.6 changed the reported value.
C5_LanguageAtSixTenths ==
    /\ calc = "calculateLanguageIndex"
    /\ LanguageW(dktData) = Dec(6, 10)
    /\ FiniteData(dktData)
    /\ result.value = RoundTo(XDiv(LanguageRaw(dktData), Dec(6, 10)), 100)
    /\ result.value # RoundTo(LanguageRaw(dktData), 100)

\* Two zToPercentile calls in a row.
TwoPercentiles == fn = "zToPercentile" /\ prevArg # << >>

\* C6: zToPercentile is monotone non-decreasing: z1 < z2 implies
\* zToPercentile(z1) <= zToPercentile(z2).
C6_PercentileMonotone ==
    (TwoPercentiles /\ XLt(prevArg[1], arg[1])) => XLe(prevRet.value, ret.value)

\* zToPercentile has been applied to a smaller, then to a larger z, and the
\* percentile rose.
C6_PercentileRose ==
    /\ TwoPercentiles
    /\ XLt(prevArg[1], arg[1])
    /\ XLt(prevRet.value, ret.value)

\* C7: zToPercentile(0) = 50, and zToPercentile(-z) + zToPercentile(z) is within
\* 1 of 100 for every z (every z that is a number: NaN has no percentile).
C7_PercentileSymmetric ==
    /\ (fn = "zToPercentile" /\ arg[1] = Num(0)) => ret.value = Num(50)
    /\ (TwoPercentiles /\ ~IsNaN(arg[1]) /\ prevArg[1] = XNeg(arg[1]))
          => /\ XLe(Num(99), XAdd(prevRet.value, ret.value))
             /\ XLe(XAdd(prevRet.value, ret.value), Num(101))

\* zToPercentile has been applied to -1 and then to 1: 13 and 87.
C7_MinusOneThenOne ==
    /\ TwoPercentiles
    /\ arg[1] = Num(1)
    /\ prevArg[1] = Num(-1)
    /\ ret.value = Num(87)
    /\ prevRet.value = Num(13)

\* C8: for finite measurements every result's percentile is an integer in
\* 0..100, whichever rule produced it.  (Arithmetic is exact here: magnitudes
\* at which a double overflows are outside the datasets.)
C8_PercentileInRange ==
    (Called /\ FiniteData(dktData) /\ ~result.raised) =>
        /\ result.percentile[2] = 1
        /\ result.percentile[1] \in 0..100

\* Language Output has run on finite measurements with a lateralization ratio
\* below its lowest band, and the percentile is 1.
C8_OutputAtFloor ==
    /\ calc = "calculateLanguageOutputLateralization"
    /\ FiniteData(dktData)
    /\ Defined(dktData.lhBA) /\ Defined(dktData.rhBA)
    /\ XLt(result.value, Dec(-25, 100))
    /\ result.percentile = Num(1)

\* (v - mean) / std, written out.
Standardized(v, norm) == XDiv(XAdd(v, XNeg(norm.mean)), norm.std)

\* C9: compositeZScore(m, ref, [wT, wA, wV]) is
\* (wT/100) zScore(m.thickness) + (wA/100) zScore(m.surfArea) + (wV/100) zScore(m.volume),
\* with zScore(v, mean, std) = (v - mean)/std; zScore(mean, mean, std) = 0 and
\* zScore(mean + std, mean, std) = 1 for finite mean and std > 0; weights [80,10,10]
\* give 0.8 zThick + 0.1 zArea + 0.1 zVol.
C9_CompositeFormula ==
    /\ fn = "zScore" =>
          /\ ret.value = XDiv(XAdd(arg[1], XNeg(arg[2])), arg[3])
          /\ (IsFinite(arg[2]) /\ XLt(Num(0), arg[3]) /\ IsFinite(arg[3])) =>
                /\ arg[1] = arg[2] => ret.value = Num(0)
                /\ arg[1] = XAdd(arg[2], arg[3]) => ret.value = Num(1)
    /\ fn = "compositeZScore" =>
          LET zThick == Standardized(arg[1].thickness, arg[2].thickness)
              zArea == Standardized(arg[1].surfArea, arg[2].surfArea)
              zVol == Standardized(arg[1].volume, arg[2].volume)
          IN  /\ ret.value =
                    XAdd(XAdd(XMul(XDiv(arg[3][1], Num(100)), zThick),
                              XMul(XDiv(arg[3][2], Num(100)), zArea)),
                         XMul(XDiv(arg[3][3], Num(100)), zVol))
              /\ arg[3] = <<Num(80), Num(10), Num(10)>> =>
                    ret.value = XAdd(XAdd(XMul(Dec(8, 10), zThick), XMul(Dec(1, 10), zArea)),
                                     XMul(Dec(1, 10), zVol))

\* compositeZScore has been applied with weights [80,10,10] to a measurement one
\* std above the mean in thickness and at the mean otherwise: 0.8.
C9_ThicknessOneStdUp ==
    /\ fn = "compositeZScore"
    /\ arg[3] = <<Num(80), Num(10), Num(10)>>
    /\ arg[1].thickness = XAdd(arg[2].thickness.mean, arg[2].thickness.std)
    /\ arg[1].surfArea = arg[2].surfArea.mean
    /\ arg[1].volume = arg[2].volume.mean
    /\ ret.value = Dec(8, 10)

\* The line the parser's step has just read is a data row it accepts; the
\* marker line in force is the last one before it.
RowIndex(k) == k \in 1..Len(content) /\ ~IsMarker(content[k]) /\ IsRow(content[k])
                 /\ Len(content[k].words) >= 5
MarkerBefore(k) == {j \in 1..(k - 1) : IsMarker(content[j])}
LastMarkerBefore(k) == CHOOSE j \in MarkerBefore(k) : \A i \in MarkerBefore(k) : i <= j
NamesCurvature(k) ==
    Includes(content[LastMarkerBefore(k)], MeanCurv) \/
    Includes(content[LastMarkerBefore(k)], CurvInd)

\* C10: a data row the parser accepts is stored with surfArea = token 2,
\* volume = token 3, thickness = token 4 (tokens counted from 0); the four
\* curvature fields are tokens 6..9 exactly when the marker names MeanCurv or
\* CurvInd and the row has at least 10 tokens, and are absent otherwise.
C10_RowFields ==
    [][(lineNo' = lineNo + 1 /\ RowIndex(lineNo) /\ MarkerBefore(lineNo) # {}) =>
         LET tokens == content[lineNo].words
             m == parsed'[tokens[1]]
         IN  /\ m.surfArea = ParseFloat(tokens[3])
             /\ m.volume = ParseFloat(tokens[4])
             /\ m.thickness = ParseFloat(tokens[5])
             /\ IF NamesCurvature(lineNo) /\ Len(tokens) >= 10
                THEN /\ DOMAIN m = {"surfArea", "volume", "thickness",
                                    "meanCurv", "gausCurv", "foldInd", "curvInd"}
                     /\ m.meanCurv = ParseFloat(tokens[7])
                     /\ m.gausCurv = ParseFloat(tokens[8])
                     /\ m.foldInd = ParseFloat(tokens[9])
                     /\ m.curvInd = ParseFloat(tokens[10])
                ELSE DOMAIN m = {"surfArea", "volume", "thickness"}
             /\ (content[lineNo] = RowTen /\ NamesCurvature(lineNo)) =>
                    m = [surfArea |-> Num(480), volume |-> Num(1600),
                         thickness |-> Dec(32, 10), meanCurv |-> Dec(5, 100),
                         gausCurv |-> Dec(2, 100), foldInd |-> Num(5), curvInd |-> Num(1)]
      ]_vars

\* The parser has read the curvature marker and then the 10-token entorhinal row.
C10_EntorhinalParsed ==
    /\ lineNo = 3
    /\ content[1] = MarkerCurv
    /\ content[2] = RowTen
    /\ parsed[RowTen.words[1]].thickness = Dec(32, 10)
    /\ parsed[RowTen.words[1]].surfArea = Num(480)
    /\ parsed[RowTen.words[1]].volume = Num(1600)
    /\ parsed[RowTen.words[1]].meanCurv = Dec(5, 100)
    /\ parsed[RowTen.words[1]].foldInd = Num(5)

\* The lines the parser has passed.
Passed == 1..(lineNo - 1)

\* Line k is empty (whitespace only); line k is a comment (its first character is #).
BlankAt(k) == content[k].words = << >>
CommentAt(k) == ~content[k].indent /\ ~BlankAt(k) /\ content[k].words[1][1] = "#"

\* Line k comes after a marker line and is neither a marker line, nor empty, nor
\* a comment: a data row.
DataRowAt(k) ==
    /\ MarkerBefore(k) # {}
    /\ ~IsMarker(content[k])
    /\ ~BlankAt(k)
    /\ ~CommentAt(k)

\* C11: every entry comes from a line after the marker line that is neither a
\* marker line, nor empty, nor a comment; every such line of at least 5 tokens
\* has its entry (it is treated as a data row); and a report without a marker
\* line yields the empty mapping.
C11_EntriesOnlyAfterMarker ==
    /\ \A n \in DOMAIN parsed :
          \E k \in Passed : DataRowAt(k) /\ content[k].words[1] = n
    /\ \A k \in Passed :
          (DataRowAt(k) /\ Len(content[k].words) >= 5) =>
              content[k].words[1] \in DOMAIN parsed
    /\ (\A k \in 1..Len(content) : ~IsMarker(content[k])) => parsed = EmptyMap

\* The parser has passed a row, the marker and a row: only the row after the
\* marker left its entry.
C11_RowBeforeMarkerIgnored ==
    /\ content = <<RowSix, MarkerPlain, RowIndented>>
    /\ lineNo = 4
    /\ DOMAIN parsed = {RowIndented.words[1]}

\* The line the parser is at is a data row of fewer than 5 tokens.
AtShortRow ==
    /\ AtLine
    /\ DataRowAt(lineNo)
    /\ Len(content[lineNo].words) < 5

\* C12: a data row of fewer than 5 tokens is skipped: the parser passes it
\* without failing, and the step adds no entry and leaves every entry as it was.
C12_ShortRowSkipped ==
    /\ [](AtShortRow => ENABLED SkipLine)
    /\ [][(AtShortRow /\ lineNo' = lineNo + 1) => parsed' = parsed]_vars

\* The parser has passed the marker, a 9-token insula row and a 4-token insula
\* row: the entry is still the one of the 9-token row.
C12_ShortInsulaRowPassed ==
    /\ content = <<MarkerPlain, RowNine, RowFour>>
    /\ lineNo = 4
    /\ DOMAIN parsed = {RowNine.words[1]}
    /\ parsed[RowNine.words[1]].thickness = Dec(29, 10)
    /\ parsed[RowNine.words[1]].volume = Num(-150)
    /\ IsNaN(parsed[RowNine.words[1]].surfArea)

\* Line k has been passed and was accepted as a data row.
Accepted(k) == k \in Passed /\ RowIndex(k) /\ MarkerBefore(k) # {}
NameAt(k) == content[k].words[1]
LastAccepted(k) == \A j \in Passed : (j > k /\ Accepted(j)) => NameAt(j) # NameAt(k)

\* C13: the entry under a name is the measurement of the last accepted row
\* that carries exactly that name, and the mapping has one entry for each
\* distinct name among the accepted rows.
C13_LastRowWins ==
    /\ DOMAIN parsed = {NameAt(k) : k \in {j \in Passed : Accepted(j)}}
    /\ \A k \in Passed :
          (Accepted(k) /\ LastAccepted(k)) =>
              parsed[NameAt(k)] = RegionData(content[k].words, NamesCurvature(k))

\* Two accepted entorhinal rows under a curvature marker: the entry is the
\* second row's, with none of the first row's curvature fields left.
C13_SecondEntorhinalRowStored ==
    /\ content = <<MarkerCurv, RowTen, RowSix>>
    /\ lineNo = 4
    /\ DOMAIN parsed = {RowSix.words[1]}
    /\ parsed[RowSix.words[1]] =
           [surfArea |-> Num(470), volume |-> Num(1500), thickness |-> Dec(31, 10)]

\* Measurement m equals the reference means of region r.
AtMean(m, r) ==
    /\ m.thickness = REFERENCE_DATA_MALE[r].thickness.mean
    /\ m.surfArea = REFERENCE_DATA_MALE[r].surfArea.mean
    /\ m.volume = REFERENCE_DATA_MALE[r].volume.mean

\* Both hemispheres hold every olfactory region at its reference means.
OlfactoryAtMeans ==
    \A r \in RegionsOf["calculateOlfactoryIndex"] :
        /\ r \in DOMAIN dktData.lh /\ AtMean(dktData.lh[r], r)
        /\ r \in DOMAIN dktData.rh /\ AtMean(dktData.rh[r], r)

\* C14: with the left and right entorhinal, parahippocampal and
\* medialorbitofrontal measurements all at their reference means,
\* calculateOlfactoryIndex returns value 0 and percentile 50.
C14_OlfactoryAtMeansIsZero ==
    (calc = "calculateOlfactoryIndex" /\ OlfactoryAtMeans) =>
        /\ ~result.raised
        /\ result.value = Num(0)
        /\ result.percentile = Num(50)

\* The Olfactory index has been computed on a dataset at the means, and all
\* three regions contributed a detail with zL = zR = 0.
C14_OlfactoryRanAtMeans ==
    /\ calc = "calculateOlfactoryIndex"
    /\ OlfactoryAtMeans
    /\ Len(result.details) = 3
    /\ \A i \in 1..3 : result.details[i].zL = Num(0) /\ result.details[i].zR = Num(0)
    /\ result.value = Num(0)

HandRegions == {"BA4a_exvivo", "BA4p_exvivo", "BA3b_exvivo"}

\* Measurement m of region r has thickness and surface area k standard
\* deviations above the reference means, and no folding index.
BAAtOffset(m, r, k) ==
    /\ m.thickness = AtOffset(REFERENCE_DATA_MALE[r].thickness, k)
    /\ m.surfArea = AtOffset(REFERENCE_DATA_MALE[r].surfArea, k)
    /\ "foldInd" \notin DOMAIN m

\* The left motor and somatosensory regions one standard deviation above the
\* means, the right ones at the means, no curvature data.
LeftOneStdAbove ==
    /\ Defined(dktData.lhBA)
    /\ Defined(dktData.rhBA)
    /\ \A r \in HandRegions :
          /\ Present(dktData.lhBA[1], r) /\ BAAtOffset(dktData.lhBA[1][r], r, 1)
          /\ Present(dktData.rhBA[1], r) /\ BAAtOffset(dktData.rhBA[1][r], r, 0)

\* C15: with left BA4a, BA4p and BA3b thickness and surface area one standard
\* deviation above the means, the right hemisphere at the means and no curvature
\* data, calculateHandednessIndex returns 0.35 x 0.70 + 0.35 x 0.70 + 0.30 x 0.70
\* = 0.70, a positive value.
C15_HandednessLeftAbove ==
    (calc = "calculateHandednessIndex" /\ LeftOneStdAbove) =>
        /\ ~result.raised
        /\ result.value = Dec(70, 100)
        /\ result.value =
             XAdd(XAdd(XMul(Dec(35, 100), XAdd(Dec(35, 100), Dec(35, 100))),
                       XMul(Dec(35, 100), XAdd(Dec(35, 100), Dec(35, 100)))),
                  XMul(Dec(30, 100), XAdd(Dec(40, 100), Dec(30, 100))))
        /\ XLt(Num(0), result.value)

\* The Handedness index has been computed on such a dataset, from all three regions.
C15_HandednessRanLeftAbove ==
    /\ calc = "calculateHandednessIndex"
    /\ LeftOneStdAbove
    /\ Len(result.details) = 3
    /\ \A i \in 1..3 : result.details[i].zL = Dec(70, 100) /\ result.details[i].zR = Num(0)

\* What C16 asks of the combined result r, given the results of the two
\* sub-indices on the same dataset.
BlendOfParts(r, outputResult, inputResult) ==
    (~outputResult.raised /\ ~inputResult.raised) =>
        /\ ~r.raised
        /\ r.value = ToFixed(XAdd(XMul(Dec(6, 10), outputResult.value),
                                  XMul(Dec(4, 10), inputResult.value)), 1000)
        /\ Len(r.details) = Len(outputResult.details) + Len(inputResult.details)
        /\ \A i \in 1..Len(outputResult.details) :
              r.details[i] =
                  [outputResult.details[i] EXCEPT !.region = @ \o <<" (Output)">>]
        /\ \A i \in 1..Len(inputResult.details) :
              r.details[Len(outputResult.details) + i] =
                  [inputResult.details[i] EXCEPT !.region = @ \o <<" (Input)">>]

\* C16: the combined Language Lateralization value is, at the three decimals it
\* is reported with, 0.6 x the Language-Output value + 0.4 x the Language-Input
\* value for the same dataset; its details are the Output details followed by the
\* Input details, each region name tagged with its origin, so that the length is
\* the sum of the two lengths.
C16_CombinedIsBlend ==
    (calc = "calculateLanguageLateralizationIndex") =>
        BlendOfParts(result,
                     calculateLanguageOutputLateralization(dktData, withT),
                     calculateLanguageInputLateralization(dktData, withT))

\* The combined index has been computed from both sub-indices, each with
\* details of its own, to a value other than 0.
C16_CombinedFromBoth ==
    /\ calc = "calculateLanguageLateralizationIndex"
    /\ ~result.raised
    /\ result.value # Num(0)
    /\ \E i, j \in 1..Len(result.details) :
          /\ i < j
          /\ result.details[i].region[Len(result.details[i].region)] = " (Output)"
          /\ result.details[j].region[Len(result.details[j].region)] = " (Input)"

\* The Parietal IQ configuration as the index is specified: region, region
\* weight, and the weights of thickness, surface area and volume.
ParietalParts ==
    << <<"supramarginal", Dec(25, 100), Dec(55, 100), Dec(25, 100), Dec(20, 100)>>,
       <<"inferiorparietal", Dec(25, 100), Dec(50, 100), Dec(28, 100), Dec(22, 100)>>,
       <<"superiorparietal", Dec(22, 100), Dec(52, 100), Dec(28, 100), Dec(20, 100)>>,
       <<"precuneus", Dec(18, 100), Dec(48, 100), Dec(30, 100), Dec(22, 100)>>,
       <<"posteriorcingulate", Dec(10, 100), Dec(45, 100), Dec(30, 100), Dec(25, 100)>> >>

ParietalContributing(d) ==
    SelectSeq(ParietalParts, LAMBDA p : p[1] \in DOMAIN d.lh /\ p[1] \in DOMAIN d.rh)

\* The z-score of one hemisphere's measurement m of part p.
ParietalSide(m, p) ==
    XAdd(XAdd(XMul(p[3], Standardized(m.thickness, REFERENCE_DATA_MALE[p[1]].thickness)),
              XMul(p[4], Standardized(m.surfArea, REFERENCE_DATA_MALE[p[1]].surfArea))),
         XMul(p[5], Standardized(m.volume, REFERENCE_DATA_MALE[p[1]].volume)))

\* The weighted sum of the bilateral means over the contributing weight.
ParietalZ(d) ==
    XDiv(SumX([i \in 1..Len(ParietalContributing(d)) |->
                 XMul(ParietalContributing(d)[i][2],
                      XDiv(XAdd(ParietalSide(d.lh[ParietalContributing(d)[i][1]],
                                             ParietalContributing(d)[i]),
                                ParietalSide(d.rh[ParietalContributing(d)[i][1]],
                                             ParietalContributing(d)[i])),
                           Num(2)))]),
         SumX([i \in 1..Len(ParietalContributing(d)) |-> ParietalContributing(d)[i][2]]))

\* x, or the end of [70, 145] nearest to it.
ClampIQ(x) == IF XLt(x, Num(70)) THEN Num(70) ELSE IF XLt(Num(145), x) THEN Num(145) ELSE x

\* The result reports z: the IQ from it, z itself at two decimals, its percentile.
ParietalReports(z) ==
    /\ result.value = ClampIQ(MathRound(XAdd(Num(100), XMul(z, XMul(Num(15), Dec(40, 100))))))
    /\ result.zScore = RoundTo(z, 100)
    /\ result.percentile = zToPercentile(z)

\* C17: on finite input calculateParietalIQIndex returns an integer value in
\* [70, 145]; when a region contributes, the value is 100 + z x 15 x 0.40 as an
\* integer clamped to [70, 145], with z the weighted sum of the bilateral-mean
\* z-scores divided by the contributing weight; the zScore field holds z (at two
\* decimals), not the IQ, and the percentile is that of z.
C17_ParietalIQ ==
    (calc = "calculateParietalIQIndex" /\ FiniteData(dktData)) =>
        /\ ~result.raised
        /\ result.value[2] = 1
        /\ XLe(Num(70), result.value) /\ XLe(result.value, Num(145))
        /\ ParietalContributing(dktData) # << >> => ParietalReports(ParietalZ(dktData))

\* Parietal IQ has run on a dataset 8 standard deviations above the means:
\* 100 + 8 x 6 = 148 is reported as 145, next to zScore 8 and percentile 100.
C17_ParietalCapped ==
    /\ calc = "calculateParietalIQIndex"
    /\ FiniteData(dktData)
    /\ ParietalZ(dktData) = Num(FarOff)
    /\ result.value = Num(145)
    /\ result.zScore = Num(FarOff)
    /\ result.percentile = Num(100)

C19_NoLocalizationNoText ==
    (Called /\ ~withT) =>
        /\ ~result.raised
        /\ result.interpretation = ""

\* Handedness was called without a localization function on a dataset without
\* subregion data, and took its early return.
C19_EarlyReturnWithoutText ==
    /\ calc = "calculateHandednessIndex"
    /\ ~withT
    /\ NoBAData(dktData)
    /\ Neutral(0)
    /\ result.interpretation = ""

\* The Dominant Eye and Handedness configurations as the indices are
\* specified: region and region weight; for Handedness also the weights of
\* thickness, surface area and folding index.
EyeParts ==
    << <<"pericalcarine", Dec(70, 100)>>, <<"cuneus", Dec(15, 100)>>,
       <<"lingual", Dec(15, 100)>> >>
HandParts ==
    << <<"BA4a_exvivo", Dec(35, 100), Dec(35, 100), Dec(35, 100), Dec(30, 100)>>,
       <<"BA4p_exvivo", Dec(35, 100), Dec(35, 100), Dec(35, 100), Dec(30, 100)>>,
       <<"BA3b_exvivo", Dec(30, 100), Dec(40, 100), Dec(30, 100), Dec(30, 100)>> >>

\* The parts whose region both mappings hold.
InBoth(parts, lh, rh) ==
    SelectSeq(parts, LAMBDA p : p[1] \in DOMAIN lh /\ p[1] \in DOMAIN rh)

\* The composite z-score of measurement m of an eye region r, at 92 : 4 : 4.
EyeSide(m, r) ==
    XAdd(XAdd(XMul(Dec(92, 100), Standardized(m.thickness, REFERENCE_DATA_MALE[r].thickness)),
              XMul(Dec(4, 100), Standardized(m.surfArea, REFERENCE_DATA_MALE[r].surfArea))),
         XMul(Dec(4, 100), Standardized(m.volume, REFERENCE_DATA_MALE[r].volume)))

\* The z-score of measurement m of hand part p; folded says whether both
\* hemispheres carry a folding index.
HandSide(m, p, folded) ==
    XAdd(XAdd(XMul(p[3], Standardized(m.thickness, REFERENCE_DATA_MALE[p[1]].thickness)),
              XMul(p[4], Standardized(m.surfArea, REFERENCE_DATA_MALE[p[1]].surfArea))),
         IF folded
         THEN XMul(p[5], Standardized(m.foldInd, BA_CURVATURE_REFERENCE[p[1]].foldInd))
         ELSE Num(0))

Folded(mL, mR) == "foldInd" \in DOMAIN mL /\ "foldInd" \in DOMAIN mR

\* The sums of weight x (zL - zR) over the contributing parts.
EyeSum(parts, lh, rh) ==
    SumX([i \in 1..Len(parts) |->
            XMul(parts[i][2],
                 XSub(EyeSide(lh[parts[i][1]], parts[i][1]),
                      EyeSide(rh[parts[i][1]], parts[i][1])))])
HandSum(parts, lh, rh) ==
    SumX([i \in 1..Len(parts) |->
            XMul(parts[i][2],
                 XSub(HandSide(lh[parts[i][1]], parts[i],
                               Folded(lh[parts[i][1]], rh[parts[i][1]])),
                      HandSide(rh[parts[i][1]], parts[i],
                               Folded(lh[parts[i][1]], rh[parts[i][1]]))))])

EyeDirect(d) == EyeSum(InBoth(EyeParts, d.lh, d.rh), d.lh, d.rh)
HandDirect(d) == HandSum(InBoth(HandParts, d.lhBA[1], d.rhBA[1]), d.lhBA[1], d.rhBA[1])

\* The value reported for the Dominant Eye is the direct sum.
EyeIsDirectSum ==
    (calc = "calculateDominantEyeIndex" /\ FiniteData(dktData)) =>
        result.value = RoundTo(EyeDirect(dktData), 1000)

\* The value reported for Handedness is the direct sum.
HandIsDirectSum ==
    (calc = "calculateHandednessIndex" /\ FiniteData(dktData) /\ ~NoBAData(dktData)) =>
        result.value = RoundTo(HandDirect(dktData), 1000)

\* C20: the Handedness and Dominant Eye values are the direct sum over the
\* contributing regions of weight x (zL - zR), not divided by the contributing
\* weight, for every subset of the configured regions present in both hemispheres.
C20_DirectSums == EyeIsDirectSum /\ HandIsDirectSum

\* The regions each calculator is configured with, in the configured order:
\* the label its detail entry carries, the region measured, and whether the
\* measurement is read from the subregion mappings (lhBA, rhBA).
Entry(label, name, ba) == [label |-> label, name |-> name, ba |-> ba]
Plain(names) == [i \in 1..Len(names) |-> Entry(<<names[i]>>, names[i], FALSE)]
Tagged(names, tag, ba) == [i \in 1..Len(names) |-> Entry(<<names[i], tag>>, names[i], ba)]
InputNames ==
    <<"superiortemporal", "inferiorparietal", "middletemporal", "supramarginal", "fusiform">>
BrocaNames == <<"BA44_exvivo", "BA45_exvivo">>
Configured ==
    [c \in Calculators |->
        CASE c = "calculateOlfactoryIndex" ->
                Plain(<<"entorhinal", "parahippocampal", "medialorbitofrontal">>)
          [] c = "calculateLanguageIndex" ->
                Plain(<<"superiortemporal", "parsopercularis", "parstriangularis",
                        "middletemporal", "fusiform">>) \o
                Tagged(BrocaNames, " (Broca)", TRUE)
          [] c = "calculateReadingIndex" ->
                Plain(<<"superiortemporal", "supramarginal", "inferiorparietal", "fusiform">>)
          [] c = "calculateEmpathyIndex" ->
                Plain(<<"rostralanteriorcingulate", "medialorbitofrontal", "insula",
                        "posteriorcingulate">>)
          [] c = "calculateExecutiveIndex" ->
                Plain(<<"superiorfrontal", "rostralmiddlefrontal", "caudalmiddlefrontal",
                        "parsopercularis">>)
          [] c = "calculateSpatialIndex" ->
                Plain(<<"inferiorparietal", "superiorparietal", "precuneus">>)
          [] c = "calculateFluidIntelligenceIndex" ->
                Plain(<<"superiorfrontal", "inferiorparietal", "superiortemporal",
                        "rostralmiddlefrontal", "insula">>)
          [] c = "calculateParietalIQIndex" ->
                Plain(<<"supramarginal", "inferiorparietal", "superiorparietal",
                        "precuneus", "posteriorcingulate">>)
          [] c = "calculateHandednessIndex" ->
                [i \in 1..3 |-> Entry(<<HandParts[i][1]>>, HandParts[i][1], TRUE)]
          [] c = "calculateDominantEyeIndex" ->
                Plain(<<"pericalcarine", "cuneus", "lingual">>)
          [] c = "calculatePreferredNostrilIndex" ->
                Plain(<<"entorhinal", "parahippocampal", "medialorbitofrontal", "insula">>) \o
                <<Entry(<<"piriform">>, "entorhinal", FALSE)>>
          [] c = "calculateLanguageOutputLateralization" ->
                [i \in 1..2 |-> Entry(<<BrocaNames[i]>>, BrocaNames[i], TRUE)]
          [] c = "calculateLanguageInputLateralization" -> Plain(InputNames)
          [] c = "calculateLanguageLateralizationIndex" ->
                Tagged(BrocaNames, " (Output)", TRUE) \o Tagged(InputNames, " (Input)", FALSE)]

\* Entry e has a reference entry and a measurement in both hemispheres of d.
Measured(d, e) ==
    /\ e.name \in DOMAIN REFERENCE_DATA_MALE
    /\ IF e.ba
       THEN /\ Defined(d.lhBA) /\ Defined(d.rhBA)
            /\ e.name \in DOMAIN d.lhBA[1] /\ e.name \in DOMAIN d.rhBA[1]
       ELSE e.name \in DOMAIN d.lh /\ e.name \in DOMAIN d.rh

LabelsOf(entries) == [i \in 1..Len(entries) |-> entries[i].label]
LabelsIn(details) == [i \in 1..Len(details) |-> details[i].region]
ExpectedLabels(d, c) == LabelsOf(SelectSeq(Configured[c], LAMBDA e : Measured(d, e)))

\* d without the regions held by one hemisphere only.
Keep(m, names) == [r \in DOMAIN m \cap names |-> m[r]]
TwoSided(d) ==
    [lh |-> Keep(d.lh, DOMAIN d.rh),
     rh |-> Keep(d.rh, DOMAIN d.lh),
     lhBA |-> IF Defined(d.lhBA) /\ Defined(d.rhBA)
              THEN <<Keep(d.lhBA[1], DOMAIN d.rhBA[1])>> ELSE d.lhBA,
     rhBA |-> IF Defined(d.lhBA) /\ Defined(d.rhBA)
              THEN <<Keep(d.rhBA[1], DOMAIN d.lhBA[1])>> ELSE d.rhBA]

\* C21: in every calculator the detail list holds, in the configured order,
\* exactly the configured regions that have a reference entry and a measurement
\* in both the left and the right mapping; a region held by one hemisphere only
\* has no detail entry and adds nothing: the value is the one of the dataset
\* without it.
C21_BothSidesOrSkipped ==
    Called =>
        /\ ~result.raised
        /\ LabelsIn(result.details) = ExpectedLabels(dktData, calc)
        /\ result.value = Run(calc, TwoSided(dktData), withT).value

\* Olfactory has run on a dataset whose entorhinal measurement exists on the
\* right only: the details are those of the other two regions, in order.
C21_EntorhinalOnOneSide ==
    /\ calc = "calculateOlfactoryIndex"
    /\ "entorhinal" \in DOMAIN dktData.rh \ DOMAIN dktData.lh
    /\ LabelsIn(result.details) = << <<"parahippocampal">>, <<"medialorbitofrontal">> >>
    /\ result.value # Num(0)

\* The Spatial Processing configuration: region, weight, shares of zL and zR.
SpatialParts ==
    << <<"inferiorparietal", Dec(50, 100), Dec(4, 10), Dec(6, 10)>>,
       <<"superiorparietal", Dec(35, 100), Dec(4, 10), Dec(6, 10)>>,
       <<"precuneus", Dec(15, 100), Dec(4, 10), Dec(6, 10)>> >>

\* The parts with every region's shares set to l and r.
WithShares(parts, l, r) == [i \in 1..Len(parts) |-> <<parts[i][1], parts[i][2], l, r>>]

\* The parts that contribute on d, and the two z-scores of a part under the
\* metric weights mw.
PartsIn(parts, d) ==
    SelectSeq(parts, LAMBDA e : /\ e[1] \in DOMAIN LanguageSides(d, e[1])[1]
                                /\ e[1] \in DOMAIN LanguageSides(d, e[1])[2])
PartZ(d, e, side, mw) ==
    compositeZScore(LanguageSides(d, e[1])[side][e[1]], REFERENCE_DATA_MALE[e[1]], mw)

\* The weighted sum over the contributing parts of shareL x zL + shareR x zR,
\* divided by the contributing weight W when renorm asks for it and 0 < W < 1.
BlendedSum(used, d, mw) ==
    SumX([i \in 1..Len(used) |->
            XMul(used[i][2], XAdd(XMul(used[i][3], PartZ(d, used[i], 1, mw)),
                                  XMul(used[i][4], PartZ(d, used[i], 2, mw))))])
WeightOf(used) == SumX([i \in 1..Len(used) |-> used[i][2]])
BlendedIndex(parts, d, mw, renorm) ==
    IF renorm /\ XLt(Num(0), WeightOf(PartsIn(parts, d)))
              /\ XLt(WeightOf(PartsIn(parts, d)), Num(1))
    THEN XDiv(BlendedSum(PartsIn(parts, d), d, mw), WeightOf(PartsIn(parts, d)))
    ELSE BlendedSum(PartsIn(parts, d), d, mw)

\* The result is the blend of the parts: its value, and per detail entry the
\* two contributions weight x share x z.
BlendsAs(used, d, mw, index) ==
    /\ result.value = RoundTo(index, 100)
    /\ Len(result.details) = Len(used)
    /\ \A i \in 1..Len(used) :
          /\ result.details[i].contribL =
                 ToFixed(XMul(XMul(used[i][2], used[i][3]), PartZ(d, used[i], 1, mw)), 1000)
          /\ result.details[i].contribR =
                 ToFixed(XMul(XMul(used[i][2], used[i][4]), PartZ(d, used[i], 2, mw)), 1000)

LanguageMetrics == <<Num(45), Num(30), Num(25)>>
SpatialMetrics == <<Num(20), Num(50), Num(30)>>
AllSevenThree == WithShares(LanguageParts, Dec(7, 10), Dec(3, 10))

SpatialBlends ==
    calc = "calculateSpatialIndex" =>
        BlendsAs(PartsIn(SpatialParts, dktData), dktData, SpatialMetrics,
                 BlendedIndex(SpatialParts, dktData, SpatialMetrics, FALSE))

\* C22 as stated: the Language Composite index blends every contributing
\* region as 0.7 x zL + 0.3 x zR, and the Spatial Processing index blends every
\* contributing region as 0.4 x zL + 0.6 x zR, before multiplying by the region weight.
C22_EveryRegionSevenThree ==
    /\ calc = "calculateLanguageIndex" =>
          BlendsAs(PartsIn(AllSevenThree, dktData), dktData, LanguageMetrics,
                   BlendedIndex(AllSevenThree, dktData, LanguageMetrics, TRUE))
    /\ SpatialBlends

\* C22, amended: the Language Composite index blends its five DKT regions as
\* 0.7 x zL + 0.3 x zR and its two Broca subregions (BA44, BA45) as
\* 0.8 x zL + 0.2 x zR; the Spatial Processing index blends every contributing
\* region as 0.4 x zL + 0.6 x zR; each before multiplying by the region weight.
C22_BrocaEightTwo ==
    /\ calc = "calculateLanguageIndex" =>
          BlendsAs(PartsIn(LanguageParts, dktData), dktData, LanguageMetrics,
                   BlendedIndex(LanguageParts, dktData, LanguageMetrics, TRUE))
    /\ SpatialBlends

\* Language Composite has run with a Broca subregion contributing, and blending
\* it 0.7 : 0.3 would have given another value.
C22_BrocaContributed ==
    /\ calc = "calculateLanguageIndex"
    /\ FiniteData(dktData)
    /\ \E i \in 1..Len(result.details) : result.details[i].region = <<"BA44_exvivo", " (Broca)">>
    /\ result.value # RoundTo(BlendedIndex(AllSevenThree, dktData, LanguageMetrics, TRUE), 100)

\* The Language Output and Language Input configurations: region, weight, and
\* the weights of thickness, surface area and the third metric (folding index
\* for Output, volume for Input).
OutputParts ==
    << <<"BA44_exvivo", Dec(60, 100), Dec(40, 100), Dec(35, 100), Dec(25, 100)>>,
       <<"BA45_exvivo", Dec(40, 100), Dec(40, 100), Dec(35, 100), Dec(25, 100)>> >>
InputParts ==
    << <<"superiortemporal", Dec(35, 100), Dec(68, 100), Dec(18, 100), Dec(14, 100)>>,
       <<"inferiorparietal", Dec(20, 100), Dec(55, 100), Dec(32, 100), Dec(13, 100)>>,
       <<"middletemporal", Dec(20, 100), Dec(60, 100), Dec(20, 100), Dec(20, 100)>>,
       <<"supramarginal", Dec(15, 100), Dec(48, 100), Dec(38, 100), Dec(14, 100)>>,
       <<"fusiform", Dec(10, 100), Dec(45, 100), Dec(20, 100), Dec(35, 100)>> >>

\* The sum over parts of weight x z for one hemisphere: of Language Output
\* (m the hemisphere's subregion mapping, o the other's) and of Language Input.
OutputContrib(parts, m, o) ==
    SumX([i \in 1..Len(parts) |->
            XMul(parts[i][2],
                 HandSide(m[parts[i][1]], parts[i],
                          Folded(m[parts[i][1]], o[parts[i][1]])))])
InputContrib(parts, m) ==
    SumX([i \in 1..Len(parts) |-> XMul(parts[i][2], ParietalSide(m[parts[i][1]], parts[i]))])

OutputUsed(d) == IF NoBAData(d) THEN << >> ELSE InBoth(OutputParts, d.lhBA[1], d.rhBA[1])
OutputL(d) == OutputContrib(OutputUsed(d), d.lhBA[1], d.rhBA[1])
OutputR(d) == OutputContrib(OutputUsed(d), d.rhBA[1], d.lhBA[1])
InputL(d) == InputContrib(InBoth(InputParts, d.lh, d.rh), d.lh)
InputR(d) == InputContrib(InBoth(InputParts, d.lh, d.rh), d.rh)

Epsilon == Dec(1, 1000)
RatioDenominator(l, r) == XAdd(XAdd(MathAbs(l), MathAbs(r)), Epsilon)

\* The result's value is the ratio of l and r, over a positive denominator,
\* and lies in [-1, 1].
IsRatioOf(l, r) ==
    /\ ~result.raised
    /\ XLt(Num(0), RatioDenominator(l, r))
    /\ result.value = ToFixed(XDiv(XSub(l, r), RatioDenominator(l, r)), 1000)
    /\ XLe(Num(-1), result.value) /\ XLe(result.value, Num(1))

\* C23: on finite input the Language-Output and Language-Input values are
\* (SumContribL - SumContribR) / (|SumContribL| + |SumContribR| + 0.001); the
\* denominator is strictly positive, and the value lies within [-1, 1].
C23_RatioWithinOne ==
    FiniteData(dktData) =>
        /\ calc = "calculateLanguageOutputLateralization" =>
              IsRatioOf(OutputL(dktData), OutputR(dktData))
        /\ calc = "calculateLanguageInputLateralization" =>
              IsRatioOf(InputL(dktData), InputR(dktData))

\* Language Output has run on both Broca subregions with two sums that differ
\* and are not zero: the value is a proper fraction, not 0.
C23_OutputLateralized ==
    /\ calc = "calculateLanguageOutputLateralization"
    /\ FiniteData(dktData)
    /\ Len(result.details) = Len(OutputParts)
    /\ OutputL(dktData) # Num(0)
    /\ OutputR(dktData) # Num(0)
    /\ result.value # Num(0)
    /\ XLt(Num(-1), result.value) /\ XLt(result.value, Num(1))

\* Thickness and surface area alone: wThick x zThick + wArea x zArea.
TwoTerms(m, p) ==
    XAdd(XMul(p[3], Standardized(m.thickness, REFERENCE_DATA_MALE[p[1]].thickness)),
         XMul(p[4], Standardized(m.surfArea, REFERENCE_DATA_MALE[p[1]].surfArea)))

\* wFold x (foldInd - mean) / std, from the curvature table.
FoldTerm(m, p) == XMul(p[5], Standardized(m.foldInd, BA_CURVATURE_REFERENCE[p[1]].foldInd))

\* Detail entry e of part p, measured mL and mR, carries the z-scores C24 asks for.
FoldRule(e, p, mL, mR) ==
    IF p[1] \in DOMAIN BA_CURVATURE_REFERENCE /\ Folded(mL, mR)
    THEN /\ e.zL = ToFixed(XAdd(TwoTerms(mL, p), FoldTerm(mL, p)), 1000)
         /\ e.zR = ToFixed(XAdd(TwoTerms(mR, p), FoldTerm(mR, p)), 1000)
    ELSE /\ e.zL = ToFixed(TwoTerms(mL, p), 1000)
         /\ e.zR = ToFixed(TwoTerms(mR, p), 1000)

FoldRuleOver(used, d) ==
    /\ ~result.raised
    /\ Len(result.details) = Len(used)
    /\ \A i \in 1..Len(used) :
          FoldRule(result.details[i], used[i], d.lhBA[1][used[i][1]], d.rhBA[1][used[i][1]])

\* C24: in Handedness and Language Output the folding-index term of a region
\* is zero for both hemispheres when the curvature reference is missing or
\* foldInd is absent from either hemisphere's measurement: the z-scores are
\* then wThick x zThick + wArea x zArea and the call does not fail; with
\* foldInd in both, the term is wFold x (foldInd - mean) / std from the
\* curvature table.
C24_FoldTermOrZero ==
    ~NoBAData(dktData) =>
        /\ calc = "calculateHandednessIndex" =>
              FoldRuleOver(InBoth(HandParts, dktData.lhBA[1], dktData.rhBA[1]), dktData)
        /\ calc = "calculateLanguageOutputLateralization" =>
              FoldRuleOver(OutputUsed(dktData), dktData)

\* Handedness has run on a dataset whose left BA4a measurement carries a
\* folding index away from the mean and whose right one carries none: the left
\* z-score is the two-term sum all the same.
C24_FoldOnLeftOnly ==
    /\ calc = "calculateHandednessIndex"
    /\ ~NoBAData(dktData)
    /\ FiniteData(dktData)
    /\ "BA4a_exvivo" \in DOMAIN dktData.lhBA[1] \cap DOMAIN dktData.rhBA[1]
    /\ "foldInd" \in DOMAIN dktData.lhBA[1]["BA4a_exvivo"]
    /\ "foldInd" \notin DOMAIN dktData.rhBA[1]["BA4a_exvivo"]
    /\ dktData.lhBA[1]["BA4a_exvivo"].foldInd # BA_CURVATURE_REFERENCE["BA4a_exvivo"].foldInd.mean
    /\ result.details[1].zL = ToFixed(TwoTerms(dktData.lhBA[1]["BA4a_exvivo"], HandParts[1]), 1000)

\* The Preferred Nostril terms: label, weight, region measured.
NostrilParts ==
    << <<"entorhinal", Dec(45, 100), "entorhinal">>,
       <<"parahippocampal", Dec(20, 100), "parahippocampal">>,
       <<"medialorbitofrontal", Dec(20, 100), "medialorbitofrontal">>,
       <<"insula", Dec(10, 100), "insula">>,
       <<"piriform", Dec(5, 100), "entorhinal">> >>

NostrilUsed(d) ==
    SelectSeq(NostrilParts, LAMBDA p : p[3] \in DOMAIN d.lh /\ p[3] \in DOMAIN d.rh)

\* The composite z-score of measurement m of region r, at 70 : 20 : 10.
NostrilSide(m, r) ==
    XAdd(XAdd(XMul(Dec(70, 100), Standardized(m.thickness, REFERENCE_DATA_MALE[r].thickness)),
              XMul(Dec(20, 100), Standardized(m.surfArea, REFERENCE_DATA_MALE[r].surfArea))),
         XMul(Dec(10, 100), Standardized(m.volume, REFERENCE_DATA_MALE[r].volume)))

\* The sum over the terms of weight x (zR - zL).
NostrilSum(used, d) ==
    SumX([i \in 1..Len(used) |->
            XMul(used[i][2], XSub(NostrilSide(d.rh[used[i][3]], used[i][3]),
                                  NostrilSide(d.lh[used[i][3]], used[i][3])))])
NostrilRaw(d) == NostrilSum(NostrilUsed(d), d)

\* The detail entries that carry the label.
Labelled(details, label) == {i \in 1..Len(details) : details[i].region = <<label>>}

\* Every contributing region is larger on the right.
RightLarger(d) ==
    /\ NostrilUsed(d) # << >>
    /\ \A i \in 1..Len(NostrilUsed(d)) :
          XLt(NostrilSide(d.lh[NostrilUsed(d)[i][3]], NostrilUsed(d)[i][3]),
              NostrilSide(d.rh[NostrilUsed(d)[i][3]], NostrilUsed(d)[i][3]))

\* C25: the Preferred Nostril term labelled piriform (weight 0.05) is computed
\* from the entorhinal measurements and reference entry: the details hold a
\* piriform entry exactly when they hold an entorhinal entry, the two carry the
\* same zL and zR, and the value is the sum over the terms of weight x (zR - zL),
\* positive when the right hemisphere is larger.
C25_PiriformIsEntorhinal ==
    (calc = "calculatePreferredNostrilIndex" /\ FiniteData(dktData)) =>
        /\ ~result.raised
        /\ (Labelled(result.details, "piriform") # {}) <=>
               (Labelled(result.details, "entorhinal") # {})
        /\ \A i \in Labelled(result.details, "piriform") :
              /\ result.details[i].regionWeight = Dec(5, 100)
              /\ result.details[i].zL =
                     ToFixed(NostrilSide(dktData.lh["entorhinal"], "entorhinal"), 1000)
              /\ result.details[i].zR =
                     ToFixed(NostrilSide(dktData.rh["entorhinal"], "entorhinal"), 1000)
              /\ \A j \in Labelled(result.details, "entorhinal") :
                    /\ result.details[j].zL = result.details[i].zL
                    /\ result.details[j].zR = result.details[i].zR
        /\ result.value = ToFixed(NostrilRaw(dktData), 1000)
        /\ RightLarger(dktData) => XLt(Num(0), result.value)

\* Preferred Nostril has run on a dataset larger on the right in every
\* region: the details hold both the entorhinal and the piriform entry, with
\* z-scores other than 0, and the value is positive.
C25_PiriformBesideEntorhinal ==
    /\ calc = "calculatePreferredNostrilIndex"
    /\ FiniteData(dktData)
    /\ RightLarger(dktData)
    /\ Len(result.details) = 5
    /\ result.details[5].region = <<"piriform">>
    /\ result.details[5].zR = result.details[1].zR
    /\ result.details[5].zR # result.details[5].zL
    /\ XLt(Num(0), result.value)

\* x, or the end of [1, 99] nearest to it.
ClampCentile(x) == IF XLt(x, Num(1)) THEN Num(1) ELSE IF XLt(Num(99), x) THEN Num(99) ELSE x

\* round(50 + 40 x v) clamped to [1, 99].
LinearCentile(v) == ClampCentile(MathRound(XAdd(Num(50), XMul(Num(40), v))))

\* C26: the Preferred Nostril percentile is round(50 + 40 x value) clamped to
\* [1, 99], for every finite value of either sign.
C26_NostrilPercentile ==
    (calc = "calculatePreferredNostrilIndex" /\ FiniteData(dktData)) =>
        result.percentile = LinearCentile(NostrilRaw(dktData))

\* Preferred Nostril has run on a dataset far larger on the left:
\* 50 + 40 x value is below 1 and the percentile is 1.
C26_NostrilAtFloor ==
    /\ calc = "calculatePreferredNostrilIndex"
    /\ FiniteData(dktData)
    /\ XLt(XAdd(Num(50), XMul(Num(40), NostrilRaw(dktData))), Num(1))
    /\ XLt(result.value, Num(0))
    /\ result.percentile = Num(1)

\* Every region the calculator is configured with has contributed a detail.
AllConfigured == Called /\ LabelsIn(result.details) = LabelsOf(Configured[calc])

\* The region weights the details report, added up.
RegionWeightSum(details) == SumX([i \in 1..Len(details) |-> details[i].regionWeight])

\* The three metric weights a detail reports, added up.
TripleSum(detail) ==
    XAdd(XAdd(detail.weightsUsed[1], detail.weightsUsed[2]), detail.weightsUsed[3])

\* The number of normalized configurations whose details the calculator
\* reports: the combined Language Lateralization merges those of Output and Input.
ConfigurationsOf(c) == IF c = "calculateLanguageLateralizationIndex" THEN Num(2) ELSE Num(1)

\* C27: the hard-coded configuration of every calculator is normalized: the
\* region weights of each index add up to 1 (Language Composite over its DKT
\* and Broca regions together) and every metric-weight triple adds up to 100.
C27_ConfigurationNormalized ==
    AllConfigured =>
        /\ RegionWeightSum(result.details) = ConfigurationsOf(calc)
        /\ \A i \in 1..Len(result.details) : TripleSum(result.details[i]) = Num(100)

\* Language Composite has run with its five DKT regions and both Broca
\* subregions contributing.
C27_LanguageAllSeven ==
    /\ calc = "calculateLanguageIndex"
    /\ AllConfigured
    /\ Len(result.details) = Len(LanguageParts)
    /\ RegionWeightSum(result.details) = Num(1)

\* A percentile map has been applied twice, to a lesser index and then a greater.
TwoBands == fn \in BandMaps /\ prevArg # <<>> /\ XLt(prevArg[1], arg[1])

\* C28: the percentile maps of Language Output, Language Input and the
\* combined Language Lateralization are monotone non-decreasing: for a < b in
\* [-1, 1] the percentile of a is at most that of b, across band edges too.
C28_BandsMonotone == TwoBands => XLe(prevRet.value, ret.value)

\* The five lateralization indexes.
LateralIndexes ==
    {"calculateHandednessIndex", "calculateDominantEyeIndex",
     "calculatePreferredNostrilIndex", "calculateLanguageOutputLateralization",
     "calculateLanguageInputLateralization"}

\* The dataset with its hemispheres exchanged, and with the left one on both sides.
Swapped(d) == [lh |-> d.rh, rh |-> d.lh, lhBA |-> d.rhBA, rhBA |-> d.lhBA]
LeftTwice(d) == [lh |-> d.lh, rh |-> d.lh, lhBA |-> d.lhBA, rhBA |-> d.lhBA]

\* C29: exchanging the left and right mappings negates the value of every
\* lateralization index, and equal mappings give the value 0.
C29_SwapNegates ==
    (calc \in LateralIndexes /\ FiniteData(dktData)) =>
        /\ Run(calc, Swapped(dktData), withT).value = XNeg(result.value)
        /\ Run(calc, LeftTwice(dktData), withT).value = Num(0)

\* The seven composite indexes that add the two hemispheres of a region.
SymmetricIndexes ==
    {"calculateOlfactoryIndex", "calculateLanguageIndex", "calculateReadingIndex",
     "calculateEmpathyIndex", "calculateExecutiveIndex", "calculateSpatialIndex",
     "calculateFluidIntelligenceIndex"}

\* contribL + contribR added up over the details.
ContribSum(details) ==
    SumX([i \in 1..Len(details) |-> XAdd(details[i].contribL, details[i].contribR)])

\* What rounding can put between the sum and the value: half a hundredth for
\* the value and half a thousandth for each contribL and contribR.
RoundingSlack(details) == XAdd(Dec(5, 1000), XMul(Num(Len(details)), Dec(1, 1000)))

\* C30: for the symmetric composite indexes, when every configured region
\* contributes, contribL + contribR of a detail is that region's contribution,
\* so the sum over the details equals the value up to rounding.
C30_DetailsAddUp ==
    (calc \in SymmetricIndexes /\ AllConfigured /\ FiniteData(dktData)) =>
        XLe(MathAbs(XSub(ContribSum(result.details), result.value)),
            RoundingSlack(result.details))

===========================================================================
